---- MODULE Spec2Model ----
(***************************************************************************)
(* Browser-automation MCP server: the shared browser session               *)
(* (BrowserManager, src/src/browser.py) and the tool dispatch              *)
(* (handle_call_tool / initialize_browser / cleanup, src/src/server.py).   *)
(*                                                                         *)
(* Playwright is the environment.  Every `await` of a Playwright call is   *)
(* one step of the model: the step resumes the coroutine with the outcome  *)
(* of the call (it returned, or it raised) and runs the synchronous code   *)
(* that follows, up to the next await.  A call that raises has no effect   *)
(* on the environment.                                                     *)
(***************************************************************************)
EXTENDS Naturals, Integers, Sequences, FiniteSets, TLC

\* Bounds of the model.
MaxObjs == 8        \* engine processes, browsers, contexts and pages ever created
MaxMgrs == 2        \* BrowserManager objects ever constructed
MaxDomChanges == 1  \* changes of the page during one call of an action

VARIABLES
    browser_manager,   \* server.py global: None or the BrowserManager (its index in mgr)
    browser_actions,   \* server.py global: None or the BrowserActions, as the manager it is bound to
    mgr,               \* the BrowserManager objects constructed so far: their four handles
    objs,              \* the environment: every object Playwright created, with owner and liveness
    task,              \* control state of each coroutine: operation, position, call log, outcome
    stopped,           \* the server's run loop has ended and the shutdown cleanup was entered
    act                \* one call of a BrowserActions method on a page: inputs, position, result

vars == <<browser_manager, browser_actions, mgr, objs, task, stopped, act>>

session == <<browser_manager, browser_actions, mgr, objs, task, stopped>>

None == 0

\* The coroutines of the model: the server handles one request at a time.
Tasks == {"t1"}

-----------------------------------------------------------------------------
\* Tool registry and arguments

\* The tool definitions handle_list_tools returns, by name and in order.
handle_list_tools ==
    <<"navigate_to", "get_page_content", "click_element", "fill_form",
      "take_screenshot", "execute_javascript">>

\* The names a client finds in the listing.
ToolNames == {handle_list_tools[i] : i \in DOMAIN handle_list_tools}

\* Faulty variant of RoutedNames: the chain has no branch for take_screenshot.
RoutedNames_without_screenshot ==
    {"navigate_to", "get_page_content", "click_element", "fill_form",
     "execute_javascript"}

\* The names the if/elif chain of handle_call_tool has a branch for.
RoutedNames ==
    {"navigate_to", "get_page_content", "click_element", "fill_form",
     "take_screenshot", "execute_javascript"}

UnknownNames == {"invalid_tool"}

\* The parameter each tool reads with arguments[...] (KeyError when absent).
RequiredParam(name) ==
    CASE name = "navigate_to"        -> {"url"}
      [] name = "click_element"      -> {"selector"}
      [] name = "fill_form"          -> {"fields"}
      [] name = "execute_javascript" -> {"code"}
      [] OTHER                       -> {}

\* URLs as urlparse splits them: a scheme and the netloc as a sequence of tokens.
NoUrl     == [scheme |-> "", netloc |-> <<>>]
GoodUrl   == [scheme |-> "https", netloc |-> <<"example", ".", "com">>]
NotAUrl   == [scheme |-> "", netloc |-> <<>>]
NoDotUrl  == [scheme |-> "http", netloc |-> <<"intranet">>]

Urls == {GoodUrl, NotAUrl, NoDotUrl}

is_valid_url(url) ==
    /\ url.scheme \in {"http", "https", "ftp", "ftps"}
    /\ url.netloc # <<>>
    /\ \/ \E i \in 1..Len(url.netloc) : url.netloc[i] = "."
       \/ url.netloc = <<"localhost">>

\* The argument mappings a client sends: the keys present, and the url value.
Arguments(name) ==
    IF name = "navigate_to"
    THEN {[keys |-> {"url"}, url |-> u] : u \in Urls} \cup {[keys |-> {}, url |-> NoUrl]}
    ELSE {[keys |-> k, url |-> NoUrl] : k \in {RequiredParam(name), {}}}

NoArgs == [keys |-> {}, url |-> NoUrl]

-----------------------------------------------------------------------------
\* Responses

NoResp == [form |-> "none", isError |-> FALSE, tool |-> "none", msg |-> "none"]

\* utils.format_error_response: the error envelope naming the tool.
format_error_response(error_message, tool_name) ==
    [form |-> "envelope", isError |-> TRUE, tool |-> tool_name, msg |-> error_message]

\* json.dumps(result) of an action's result dictionary.
ResultPayload(tool_name, success, message) ==
    [form |-> IF success THEN "success" ELSE "failure",
     isError |-> FALSE, tool |-> tool_name, msg |-> message]

-----------------------------------------------------------------------------
\* The environment's objects

NoHandles == [playwright |-> None, browser |-> None, context |-> None, page |-> None]

NewObj(kind, parent) ==
    [kind |-> kind, parent |-> parent, live |-> TRUE, close_raised |-> FALSE]

IsLive(o, x) == x \in DOMAIN o /\ o[x].live

\* x is y or is owned, directly or not, by y (page < context < browser < engine).
OwnedBy(o, x, y) ==
    \/ x = y
    \/ o[x].parent = y
    \/ o[x].parent # None /\ o[o[x].parent].parent = y
    \/ o[x].parent # None /\ o[o[x].parent].parent # None
         /\ o[o[o[x].parent].parent].parent = y

\* Closing an object closes everything it owns.
CloseObj(o, y) ==
    [x \in DOMAIN o |->
        IF OwnedBy(o, x, y)
        THEN [o[x] EXCEPT !.live = FALSE, !.close_raised = FALSE]
        ELSE o[x]]

\* The close of object y raised: the object stays as it is.  That a close was
\* tried on it is remembered while it is open, on the objects a session is
\* counted by (engine, browser, context).
CloseRaised(o, y) ==
    IF o[y].kind = "page" THEN o ELSE [o EXCEPT ![y].close_raised = TRUE]

\* context.pages: the open pages of a context, in creation order.
ContextPages(o, c) == {x \in DOMAIN o : o[x].kind = "page" /\ o[x].parent = c /\ o[x].live}

Min(S) == CHOOSE x \in S : \A y \in S : x <= y

Budget(n) == Len(objs) + n <= MaxObjs

\* get_current_page() on manager m would have to open a page.
NeedsPage(m) == mgr[m].page = None /\ mgr[m].context # None

-----------------------------------------------------------------------------
\* Coroutines

\* What an operation found when it was entered (kept to state its effect).
NoEntry == [h |-> NoHandles, bm |-> None, ba |-> None, nobjs |-> 0, nmgr |-> 0]

IdleTask ==
    [op |-> "none", pc |-> "idle", why |-> "none", m |-> None,
     name |-> "none", arguments |-> NoArgs, target |-> None,
     resp |-> NoResp, err |-> "none", log |-> <<>>, entry |-> NoEntry,
     tools |-> <<>>]

\* No action method is being followed step by step.
NoAct == [op |-> "none", pc |-> "idle"]

Init ==
    /\ browser_manager = None
    /\ browser_actions = None
    /\ mgr = <<>>
    /\ objs = <<>>
    /\ task = [t \in Tasks |-> IdleTask]
    /\ stopped = FALSE
    /\ act = NoAct

Ready(t) == task[t].pc \in {"idle", "done"} /\ ~stopped

\* A fresh record for operation op entered on manager m (None: no manager yet).
Enter(op, m) ==
    [IdleTask EXCEPT
        !.op = op, !.pc = "run", !.m = m,
        !.entry = [h |-> IF m = None THEN NoHandles ELSE mgr[m],
                   bm |-> browser_manager, ba |-> browser_actions,
                   nobjs |-> Len(objs), nmgr |-> Len(mgr)]]

Logged(tk, call, ok) == [tk EXCEPT !.log = Append(@, <<call, IF ok THEN "ok" ELSE "raise">>)]

\* The coroutine is suspended in an await at position pc.
Suspend(t, tk, mg, o, pc) ==
    /\ mgr' = mg
    /\ objs' = o
    /\ task' = [task EXCEPT ![t] = [tk EXCEPT !.pc = pc]]

\* The operation returned (e = "none") or raised e to its caller.
Finish(t, tk, mg, o, e) ==
    /\ mgr' = mg
    /\ objs' = o
    /\ task' = [task EXCEPT ![t] = [tk EXCEPT !.pc = "done", !.err = e]]

\* handle_call_tool returns its single text content item.
Respond(t, tk, mg, o, r) ==
    /\ mgr' = mg
    /\ objs' = o
    /\ task' = [task EXCEPT ![t] = [tk EXCEPT !.pc = "done", !.resp = r]]

\* Faulty variant of call_tool_except: the exception leaves handle_call_tool.
call_tool_except_propagates(t, tk, mg, o, e) == Finish(t, tk, mg, o, e)

\* The except of handle_call_tool: exception e, raised anywhere in the try block,
\* is answered with the error envelope naming the tool.
call_tool_except(t, tk, mg, o, e) ==
    Respond(t, tk, mg, o, format_error_response(e, tk.name))

-----------------------------------------------------------------------------
\* BrowserManager.start and BrowserManager.cleanup

\* start() raised e: it propagates to whoever called start.  In a tool call that
\* is initialize_browser and then handle_call_tool's except, which answers with
\* the error envelope; restart() and a direct caller let it propagate.
start_raise(t, tk, mg, o, e) ==
    IF tk.op = "tool"
    THEN call_tool_except(t, tk, mg, o, e)
    ELSE Finish(t, tk, mg, o, e)

\* Faulty variant of start_enter: start() without its already-running guard.
start_enter_unguarded(t, tk, mg, o) == Suspend(t, tk, mg, o, "start_engine")

\* start() is entered: the already-running guard, then the engine start is awaited.
start_enter(t, tk, mg, o) ==
    IF mg[tk.m].playwright # None
    THEN start_raise(t, tk, mg, o, "already_running")
    ELSE Suspend(t, tk, mg, o, "start_engine")

\* cleanup() returned to its caller: the except of start() re-raises the startup
\* error, restart() goes on to start(), a direct or shutdown caller is done.
cleanup_return(t, tk, mg, o) ==
    CASE tk.why = "start_fail" -> start_raise(t, tk, mg, o, "startup_failed")
      [] tk.why = "restart"    -> start_enter(t, tk, mg, o)
      [] OTHER                 -> Finish(t, tk, mg, o, "none")

TeardownHandle == <<"page", "context", "browser", "playwright">>
TeardownPc     == <<"cl_page", "cl_context", "cl_browser", "cl_engine">>
TeardownCall   == <<"page.close", "context.close", "browser.close", "playwright.stop">>

\* Faulty variant of NextTeardown: teardown in creation order, the engine first.
NextTeardown_engine_first(h, k) ==
    LET S == {i \in k..4 : h[TeardownHandle[i]] # None}
    IN  IF S = {} THEN 0 ELSE CHOOSE i \in S : \A j \in S : i >= j

\* The next teardown step cleanup() takes from step k on: the first whose handle
\* is set (0 when none is).
NextTeardown(h, k) ==
    LET S == {i \in k..4 : h[TeardownHandle[i]] # None}
    IN  IF S = {} THEN 0 ELSE Min(S)

\* cleanup() runs its `if` chain from step k until a close is awaited or it returns.
cleanup_continue(t, tk, mg, o, k) ==
    LET i == NextTeardown(mg[tk.m], k)
    IN  IF i = 0
        THEN cleanup_return(t, tk, mg, o)
        ELSE Suspend(t, tk, mg, o, TeardownPc[i])

\* A teardown step raised: the single except of cleanup() logs it and cleanup()
\* returns.
cleanup_except(t, tk, mg, o, i) == cleanup_return(t, tk, mg, o)

\* Faulty variant of TeardownStep: the handle is not set to None after its close.
TeardownStep_keeps_handle(t, i) ==
    /\ task[t].pc = TeardownPc[i]
    /\ \E ok \in BOOLEAN :
         LET tk == Logged(task[t], TeardownCall[i], ok)
             x  == mgr[tk.m][TeardownHandle[i]]
         IN  IF ok
             THEN cleanup_continue(t, tk, mgr, CloseObj(objs, x), i + 1)
             ELSE cleanup_except(t, tk, mgr, CloseRaised(objs, x), i)
    /\ UNCHANGED <<browser_manager, browser_actions, stopped, act>>

\* Resume of the close awaited in teardown step i.
TeardownStep(t, i) ==
    /\ task[t].pc = TeardownPc[i]
    /\ \E ok \in BOOLEAN :
         LET tk == Logged(task[t], TeardownCall[i], ok)
             x  == mgr[tk.m][TeardownHandle[i]]
         IN  IF ok
             THEN cleanup_continue(t, tk,
                                   [mgr EXCEPT ![tk.m][TeardownHandle[i]] = None],
                                   CloseObj(objs, x), i + 1)
             ELSE cleanup_except(t, tk, mgr, CloseRaised(objs, x), i)
    /\ UNCHANGED <<browser_manager, browser_actions, stopped, act>>

cleanup_page(t)    == TeardownStep(t, 1)
cleanup_context(t) == TeardownStep(t, 2)
cleanup_browser(t) == TeardownStep(t, 3)
cleanup_engine(t)  == TeardownStep(t, 4)

\* Faulty variant of start_except: the startup error is raised without cleanup().
start_except_no_cleanup(t, tk, mg, o) ==
    start_raise(t, [tk EXCEPT !.why = "start_fail"], mg, o, "startup_failed")

\* The except of start(): cleanup(), then the startup error.
start_except(t, tk, mg, o) ==
    cleanup_continue(t, [tk EXCEPT !.why = "start_fail"], mg, o, 1)

-----------------------------------------------------------------------------
\* BrowserManager.get_current_page and the actions of BrowserActions

\* Faulty variant of action_except: navigate_to returns a failure dictionary too.
action_except_all_payload(t, tk, mg, o, e) ==
    Respond(t, tk, mg, o, ResultPayload(tk.name, FALSE, e))

\* An exception inside an action's try block: navigate_to re-raises it as a
\* RuntimeError, which handle_call_tool turns into the error envelope; the other
\* five actions return a failure payload, which is serialized like any result.
action_except(t, tk, mg, o, e) ==
    IF tk.name = "navigate_to"
    THEN call_tool_except(t, tk, mg, o, e)
    ELSE Respond(t, tk, mg, o, ResultPayload(tk.name, FALSE, e))

\* get_current_page() returned page x to its caller: an action goes on to its
\* page operation, a direct caller is done.
gcp_return(t, tk, mg, o, x) ==
    IF tk.op = "tool"
    THEN Suspend(t, [tk EXCEPT !.target = x], mg, o, "page_op")
    ELSE Finish(t, [tk EXCEPT !.target = x], mg, o, "none")

gcp_raise(t, tk, mg, o, e) ==
    IF tk.op = "tool"
    THEN action_except(t, tk, mg, o, e)
    ELSE Finish(t, tk, mg, o, e)

\* Faulty variant of get_current_page: a page is opened even when one is current.
get_current_page_always_opens(t, tk, mg, o) ==
    IF mg[tk.m].context = None
    THEN gcp_raise(t, tk, mg, o, "not_started")
    ELSE Suspend(t, tk, mg, o, "gcp_new_page")

\* get_current_page() on manager tk.m, up to its await or its return.
get_current_page(t, tk, mg, o) ==
    LET h == mg[tk.m]
    IN  IF h.page # None
        THEN gcp_return(t, tk, mg, o, h.page)
        ELSE IF h.context = None
             THEN gcp_raise(t, tk, mg, o, "not_started")
             ELSE Suspend(t, tk, mg, o, "gcp_new_page")

\* Resume of `self.page = await self.context.new_page()` in get_current_page.
gcp_new_page(t) ==
    /\ task[t].pc = "gcp_new_page"
    /\ \E ok \in BOOLEAN :
         LET tk == Logged(task[t], "context.new_page", ok)
             c  == mgr[tk.m].context
             x  == Len(objs) + 1
         IN  IF ok
             THEN /\ IsLive(objs, c)
                  /\ gcp_return(t, tk, [mgr EXCEPT ![tk.m].page = x],
                                Append(objs, NewObj("page", c)), x)
             ELSE gcp_raise(t, tk, mgr, objs, "op_failed")
    /\ UNCHANGED <<browser_manager, browser_actions, stopped, act>>

\* The outcomes of an action's page operations: they succeed; one of them raises
\* (a timeout or any other exception); the action finds what it needs missing and
\* returns a failure dictionary itself (get_page_content with a selector that
\* matches nothing); or page.evaluate returns a value json.dumps cannot serialize.
PageOutcomes(name) ==
    {"ok", "raise"}
        \cup (IF name = "get_page_content" THEN {"no_match"} ELSE {})
        \cup (IF name = "execute_javascript" THEN {"unserializable"} ELSE {})

\* Resume of the page operation an action delegates to Playwright, then the
\* action's return and json.dumps of its result in handle_call_tool.
page_op(t) ==
    /\ task[t].pc = "page_op"
    /\ \E r \in PageOutcomes(task[t].name) :
         LET tk == Logged(task[t], "page.op", r # "raise")
         IN  CASE r = "ok" ->
                    /\ IsLive(objs, tk.target)
                    /\ Respond(t, tk, mgr, objs, ResultPayload(tk.name, TRUE, "ok"))
               [] r = "no_match" ->
                    /\ IsLive(objs, tk.target)
                    /\ Respond(t, tk, mgr, objs, ResultPayload(tk.name, FALSE, "no_match"))
               [] r = "unserializable" ->
                    /\ IsLive(objs, tk.target)
                    /\ call_tool_except(t, Logged(tk, "json.dumps", FALSE), mgr, objs,
                                        "not_serializable")
               [] OTHER -> action_except(t, tk, mgr, objs, "op_failed")
    /\ UNCHANGED <<browser_manager, browser_actions, stopped, act>>

-----------------------------------------------------------------------------
\* handle_call_tool

\* Faulty variant of Route: the KeyError of a missing parameter is not caught.
Route_key_error_escapes(t, tk, mg, o, ba) ==
    IF tk.name \notin RoutedNames
    THEN call_tool_except(t, tk, mg, o, "unknown_tool")
    ELSE IF RequiredParam(tk.name) \ tk.arguments.keys # {}
    THEN Finish(t, tk, mg, o, "key_error")
    ELSE IF tk.name = "navigate_to" /\ ~is_valid_url(tk.arguments.url)
    THEN call_tool_except(t, tk, mg, o, "invalid_url")
    ELSE get_current_page(t, [tk EXCEPT !.m = ba], mg, o)

\* The routing of handle_call_tool with the actions object bound to manager ba:
\* the if/elif chain on the name, the arguments[...] reads, and the action up to
\* its first await.
Route(t, tk, mg, o, ba) ==
    IF tk.name \notin RoutedNames
    THEN call_tool_except(t, tk, mg, o, "unknown_tool")
    ELSE IF RequiredParam(tk.name) \ tk.arguments.keys # {}
    THEN call_tool_except(t, tk, mg, o, "key_error")
    ELSE IF tk.name = "navigate_to" /\ ~is_valid_url(tk.arguments.url)
    THEN call_tool_except(t, tk, mg, o, "invalid_url")
    ELSE get_current_page(t, [tk EXCEPT !.m = ba], mg, o)

\* start() returned normally.  In a tool call initialize_browser binds the
\* actions object to the manager in browser_manager and the call is routed.
start_return(t, tk, mg, o) ==
    IF tk.op = "tool"
    THEN /\ browser_actions' = browser_manager
         /\ Route(t, tk, mg, o, browser_manager)
    ELSE /\ browser_actions' = browser_actions
         /\ Finish(t, tk, mg, o, "none")

\* Resume of `self.playwright = await async_playwright().start()`, then the
\* getattr of the configured browser type.
start_engine(t) ==
    /\ task[t].pc = "start_engine"
    /\ \E r \in {"ok", "raise", "bad_type"} :
         LET tk == Logged(task[t], "playwright.start", r # "raise")
             e  == Len(objs) + 1
             mg == [mgr EXCEPT ![tk.m].playwright = e]
             o  == Append(objs, NewObj("engine", None))
         IN  CASE r = "ok"       -> Suspend(t, tk, mg, o, "start_browser")
               [] r = "bad_type" ->
                    start_except(t, Logged(tk, "getattr.browser_type", FALSE), mg, o)
               [] OTHER          -> start_except(t, tk, mgr, objs)
    /\ UNCHANGED <<browser_manager, browser_actions, stopped, act>>

\* Resume of `self.browser = await browser_type.launch(...)`.
start_browser(t) ==
    /\ task[t].pc = "start_browser"
    /\ \E ok \in BOOLEAN :
         LET tk == Logged(task[t], "browser.launch", ok)
             e  == mgr[tk.m].playwright
             b  == Len(objs) + 1
         IN  IF ok
             THEN /\ IsLive(objs, e)
                  /\ Suspend(t, tk, [mgr EXCEPT ![tk.m].browser = b],
                             Append(objs, NewObj("browser", e)), "start_context")
             ELSE start_except(t, tk, mgr, objs)
    /\ UNCHANGED <<browser_manager, browser_actions, stopped, act>>

\* Resume of `self.context = await self.browser.new_context(...)`.
start_context(t) ==
    /\ task[t].pc = "start_context"
    /\ \E ok \in BOOLEAN :
         LET tk == Logged(task[t], "browser.new_context", ok)
             b  == mgr[tk.m].browser
             c  == Len(objs) + 1
         IN  IF ok
             THEN /\ IsLive(objs, b)
                  /\ Suspend(t, tk, [mgr EXCEPT ![tk.m].context = c],
                             Append(objs, NewObj("context", b)), "start_page")
             ELSE start_except(t, tk, mgr, objs)
    /\ UNCHANGED <<browser_manager, browser_actions, stopped, act>>

\* Resume of `self.page = await self.context.new_page()` in start().
start_page(t) ==
    /\ task[t].pc = "start_page"
    /\ \E ok \in BOOLEAN :
         LET tk == Logged(task[t], "context.new_page", ok)
             c  == mgr[tk.m].context
             x  == Len(objs) + 1
         IN  IF ok
             THEN /\ IsLive(objs, c)
                  /\ start_return(t, tk, [mgr EXCEPT ![tk.m].page = x],
                                  Append(objs, NewObj("page", c)))
             ELSE /\ browser_actions' = browser_actions
                  /\ start_except(t, tk, mgr, objs)
    /\ UNCHANGED <<browser_manager, stopped, act>>

\* initialize_browser, up to the await inside start(): a new BrowserManager
\* replaces the one in browser_manager, and its start() is entered.
initialize_browser(t, tk) ==
    LET m == Len(mgr) + 1
    IN  /\ Len(mgr) < MaxMgrs
        /\ Budget(4)
        /\ browser_manager' = m
        /\ start_enter(t, [tk EXCEPT !.m = m], Append(mgr, NoHandles), objs)

\* handle_call_tool(name, arguments) up to its first await.
call_tool(t, name, arguments) ==
    LET tk == [Enter("tool", browser_manager) EXCEPT
                  !.name = name, !.arguments = arguments]
    IN  /\ IF browser_manager = None \/ browser_actions = None
           THEN initialize_browser(t, tk)
           ELSE /\ NeedsPage(browser_actions) => Budget(1)
                /\ browser_manager' = browser_manager
                /\ Route(t, tk, mgr, objs, browser_actions)
        /\ UNCHANGED <<browser_actions, stopped, act>>

\* A tools/call request arrives.
handle_call_tool(t) ==
    /\ Ready(t)
    /\ \E name \in ToolNames \cup RoutedNames \cup UnknownNames :
         \E arguments \in Arguments(name) : call_tool(t, name, arguments)

-----------------------------------------------------------------------------
\* The other operations of the session, called on the manager in browser_manager

\* BrowserManager.start() called directly.
api_start(t) ==
    /\ Ready(t)
    /\ browser_manager # None
    /\ Budget(4)
    /\ start_enter(t, Enter("start", browser_manager), mgr, objs)
    /\ UNCHANGED <<browser_manager, browser_actions, stopped, act>>

\* BrowserManager.cleanup() called directly.
api_cleanup(t) ==
    /\ Ready(t)
    /\ browser_manager # None
    /\ cleanup_continue(t, [Enter("cleanup", browser_manager) EXCEPT !.why = "direct"],
                        mgr, objs, 1)
    /\ UNCHANGED <<browser_manager, browser_actions, stopped, act>>

\* BrowserManager.restart(): cleanup(), then start().
api_restart(t) ==
    /\ Ready(t)
    /\ browser_manager # None
    /\ Budget(4)
    /\ cleanup_continue(t, [Enter("restart", browser_manager) EXCEPT !.why = "restart"],
                        mgr, objs, 1)
    /\ UNCHANGED <<browser_manager, browser_actions, stopped, act>>

\* BrowserManager.get_current_page() called directly.
api_get_current_page(t) ==
    /\ Ready(t)
    /\ browser_manager # None
    /\ NeedsPage(browser_manager) => Budget(1)
    /\ get_current_page(t, Enter("get_current_page", browser_manager), mgr, objs)
    /\ UNCHANGED <<browser_manager, browser_actions, stopped, act>>

\* BrowserManager.new_page(), up to its await.
api_new_page(t) ==
    /\ Ready(t)
    /\ browser_manager # None
    /\ mgr[browser_manager].context # None => Budget(1)
    /\ LET tk == Enter("new_page", browser_manager)
       IN  IF mgr[tk.m].context = None
           THEN Finish(t, tk, mgr, objs, "not_started")
           ELSE Suspend(t, tk, mgr, objs, "np_new_page")
    /\ UNCHANGED <<browser_manager, browser_actions, stopped, act>>

\* Resume of `new_page = await self.context.new_page()` in new_page().
np_new_page(t) ==
    /\ task[t].pc = "np_new_page"
    /\ \E ok \in BOOLEAN :
         LET tk == Logged(task[t], "context.new_page", ok)
             c  == mgr[tk.m].context
             x  == Len(objs) + 1
         IN  IF ok
             THEN /\ IsLive(objs, c)
                  /\ Finish(t, [tk EXCEPT !.target = x], [mgr EXCEPT ![tk.m].page = x],
                            Append(objs, NewObj("page", c)), "none")
             ELSE Finish(t, tk, mgr, objs, "op_failed")
    /\ UNCHANGED <<browser_manager, browser_actions, stopped, act>>

\* BrowserManager.close_page(page), up to its await: page is None or an open
\* page of the context.
api_close_page(t) ==
    /\ Ready(t)
    /\ browser_manager # None
    /\ \E page \in {None} \cup ContextPages(objs, mgr[browser_manager].context) :
         LET tk0 == Enter("close_page", browser_manager)
             target_page == IF page # None THEN page ELSE mgr[tk0.m].page
             tk == [tk0 EXCEPT !.target = target_page]
         IN  IF target_page # None
             THEN Suspend(t, tk, mgr, objs, "cp_close")
             ELSE Finish(t, tk, mgr, objs, "none")
    /\ UNCHANGED <<browser_manager, browser_actions, stopped, act>>

\* Faulty variant of close_page_current: the closed page stays current.
close_page_current_stale(pages) == mgr[browser_manager].page

\* Faulty variant of close_page_current: no other open page is made current.
close_page_current_unset(pages) == None

\* The current page close_page() chooses after it closed the current one:
\* pages[0] of the context's open pages, None when there is none.
close_page_current(pages) == IF pages # {} THEN Min(pages) ELSE None

\* Resume of `await target_page.close()` in close_page(), then the choice of
\* the new current page.
cp_close(t) ==
    /\ task[t].pc = "cp_close"
    /\ \E ok \in BOOLEAN :
         LET tk == Logged(task[t], "page.close", ok)
             h  == mgr[tk.m]
             o  == CloseObj(objs, tk.target)
             pages == ContextPages(o, h.context)
         IN  IF ~ok
             THEN Finish(t, tk, mgr, CloseRaised(objs, tk.target), "op_failed")
             ELSE IF tk.target # h.page
             THEN Finish(t, tk, mgr, o, "none")
             ELSE IF h.context = None
             THEN Finish(t, tk, mgr, o, "not_started")
             ELSE Finish(t, tk, [mgr EXCEPT ![tk.m].page = close_page_current(pages)],
                         o, "none")
    /\ UNCHANGED <<browser_manager, browser_actions, stopped, act>>

\* A tools/list request arrives: the listing is returned; nothing of the session
\* is read or written.
list_tools(t) ==
    /\ Ready(t)
    /\ task' = [task EXCEPT ![t] = [Enter("list_tools", browser_manager) EXCEPT
                                        !.pc = "done", !.tools = handle_list_tools]]
    /\ UNCHANGED <<browser_manager, browser_actions, mgr, objs, stopped, act>>

\* The run loop of main() ended: the finally block awaits server.cleanup(),
\* which cleans the manager in browser_manager up if there is one.
server_cleanup(t) ==
    /\ Ready(t)
    /\ stopped' = TRUE
    /\ IF browser_manager # None
       THEN cleanup_continue(t, [Enter("shutdown", browser_manager) EXCEPT !.why = "shutdown"],
                             mgr, objs, 1)
       ELSE Finish(t, Enter("shutdown", None), mgr, objs, "none")
    /\ UNCHANGED <<browser_manager, browser_actions, act>>

-----------------------------------------------------------------------------
\* Specifications

\* Resumes of the awaits inside start() and cleanup().
ResumeSession(t) ==
    \/ start_engine(t)
    \/ start_browser(t)
    \/ start_context(t)
    \/ start_page(t)
    \/ cleanup_page(t)
    \/ cleanup_context(t)
    \/ cleanup_browser(t)
    \/ cleanup_engine(t)

\* The whole session interface, one operation at a time.
Next ==
    \E t \in Tasks :
        \/ handle_call_tool(t)
        \/ list_tools(t)
        \/ api_start(t)
        \/ api_cleanup(t)
        \/ api_restart(t)
        \/ api_get_current_page(t)
        \/ api_new_page(t)
        \/ api_close_page(t)
        \/ server_cleanup(t)
        \/ np_new_page(t)
        \/ cp_close(t)
        \/ gcp_new_page(t)
        \/ page_op(t)
        \/ ResumeSession(t)

Spec == Init /\ [][Next]_vars

\* The server process alone: requests, one at a time, and the shutdown.  No
\* tool unsets the current page, so get_current_page never has to open one.
NextServer ==
    \E t \in Tasks :
        \/ handle_call_tool(t)
        \/ list_tools(t)
        \/ server_cleanup(t)
        \/ page_op(t)
        \/ ResumeSession(t)

SpecServer == Init /\ [][NextServer]_vars

\* The server with overlapping requests: a second tools/call is dispatched
\* while the first is suspended in an await.
Callers == {"t1", "t2"}

InitConcurrent ==
    /\ browser_manager = None
    /\ browser_actions = None
    /\ mgr = <<>>
    /\ objs = <<>>
    /\ task = [t \in Callers |-> IdleTask]
    /\ stopped = FALSE
    /\ act = NoAct

\* Each caller sends one well-formed request.
overlapping_call(t) ==
    /\ task[t].pc = "idle"
    /\ \E name \in {"navigate_to", "get_page_content"} :
         call_tool(t, name, [keys |-> RequiredParam(name),
                             url |-> IF name = "navigate_to" THEN GoodUrl ELSE NoUrl])

NextConcurrent ==
    \E t \in Callers :
        \/ overlapping_call(t)
        \/ page_op(t)
        \/ gcp_new_page(t)
        \/ ResumeSession(t)

SpecConcurrent == InitConcurrent /\ [][NextConcurrent]_vars

TypeOK ==
    /\ browser_manager \in 0..Len(mgr)
    /\ browser_actions \in 0..Len(mgr)
    /\ Len(mgr) <= MaxMgrs
    /\ Len(objs) <= MaxObjs
    /\ \A t \in DOMAIN task : task[t].m \in 0..Len(mgr)

-----------------------------------------------------------------------------
\* BrowserActions.click_element and BrowserActions.fill_form, await by await
\*
\* The page is the environment.  Each selector of the call matches at most one
\* element, which is absent, or present and visible or not, enabled or not; the
\* page may change under the call, between two awaits.

FieldSelectors == {"a", "b"}

ElementStates == {"absent", "hidden", "hidden_disabled", "disabled", "ok"}

Exists(e)  == e # "absent"
Visible(e) == e \in {"disabled", "ok"}
Enabled(e) == e \in {"hidden", "ok"}

\* What is_visible() and is_enabled() return.
Answer(b) == IF b THEN "true" ELSE "false"

\* submit_selectors of fill_form, in the order they are probed.
submit_selectors ==
    <<"input[type=submit]", "button[type=submit]", "button:has-text(Submit)",
      "button:has-text(Send)", "button:has-text(Login)">>

\* The fields mappings of the model: the selectors in the order of the mapping.
FieldMappings ==
    {<<>>} \cup {<<x>> : x \in FieldSelectors}
           \cup {<<x, y>> : <<x, y>> \in {z \in FieldSelectors \X FieldSelectors : z[1] # z[2]}}

NoResult ==
    [success |-> FALSE, error |-> <<>>, clicked |-> FALSE,
     filled_count |-> 0, failed_count |-> 0, filled_fields |-> <<>>,
     failed_fields |-> <<>>, submitted |-> "absent", submit_error |-> "none",
     selector |-> "absent", type |-> "absent", screenshot |-> "absent",
     url |-> "absent", waited_for |-> "absent",
     keys |-> {}, content |-> <<>>, content_length |-> 0,
     links |-> <<>>, link_count |-> 0]

\* A call of method op entered: nothing awaited yet.
\* Text as a sequence of characters: "x" stands for any printing character, " "
\* for a blank and "nl" for a line break.
Whitespace == {" ", "nl"}

Texts == {<<>>, <<" ">>, <<"x">>, <<" ", "x", " ", "nl", "x", " ">>}

\* The a[href] elements of a page: the href attribute and the text of each.
LinkLists ==
    {<<>>,
     <<[href |-> "h", text |-> <<"x">>]>>,
     <<[href |-> "", text |-> <<"x">>], [href |-> "h", text |-> <<" ", "x">>]>>,
     <<[href |-> "h", text |-> <<" ">>]>>}

\* The timeout arguments of navigate_to, in seconds.
Timeouts == {1, 30}

ActCall(op, selector, fields, submit, dom) ==
    [op |-> op, pc |-> "get_page", selector |-> selector, fields |-> fields,
     submit |-> submit, dom |-> dom, dom0 |-> dom, changes |-> 0, i |-> 1, k |-> 1,
     is_visible |-> FALSE, filled_fields |-> <<>>, failed_fields |-> <<>>,
     calls |-> <<>>, result |-> NoResult, returned |-> FALSE,
     full_page |-> FALSE, include_links |-> FALSE, wait_for |-> "none",
     url |-> NoUrl, timeout |-> 0, page_url |-> "about:blank", raised |-> <<>>,
     response |-> "none", elements |-> 0, parts |-> <<>>, content |-> <<>>,
     link_elements |-> <<>>, links |-> <<>>]

ActInputs ==
    {ActCall("click_element", "a", <<>>, FALSE, [x \in FieldSelectors |-> e]) :
        e \in ElementStates}
    \cup {ActCall("fill_form", "none", f, sb, d) :
            f \in FieldMappings, sb \in BOOLEAN,
            d \in [FieldSelectors -> {"absent", "ok"}]}
    \cup {[ActCall("navigate_to", "none", <<>>, FALSE, [y \in FieldSelectors |-> e])
              EXCEPT !.pc = "enter", !.url = u, !.wait_for = w, !.timeout = tm] :
            u \in Urls, w \in {"none", "a"}, tm \in Timeouts, e \in {"absent", "ok"}}
    \cup {[ActCall("get_page_content", x, <<>>, FALSE, [y \in FieldSelectors |-> e])
              EXCEPT !.include_links = il] :
            x \in {"none", "a"}, il \in BOOLEAN, e \in {"absent", "ok"}}
    \cup {[ActCall("take_screenshot", x, <<>>, FALSE, [y \in FieldSelectors |-> e])
              EXCEPT !.full_page = fp] :
            x \in {"none", "a"}, fp \in BOOLEAN, e \in {"absent", "hidden", "ok"}}

InitActions ==
    /\ browser_manager = None
    /\ browser_actions = None
    /\ mgr = <<>>
    /\ objs = <<>>
    /\ task = [t \in Tasks |-> IdleTask]
    /\ stopped = FALSE
    /\ act \in ActInputs

\* Call a has obtained its page.
GotPageOf(a) == a.calls # <<>> /\ a.calls[1] = <<"get_current_page", "none", "ok">>

\* The awaited call, its argument and its outcome are recorded.
ActLogged(a, call, arg, outcome) ==
    [a EXCEPT !.calls = Append(@, <<call, arg, outcome>>)]

\* The method returns dictionary r.
ActReturn(a, r) == [a EXCEPT !.pc = "done", !.result = r, !.returned = TRUE]

\* The page changes under the call: the element of one selector changes state.
dom_change ==
    /\ act.pc \notin {"idle", "done"}
    /\ act.changes < MaxDomChanges
    /\ \E x \in FieldSelectors : \E e \in ElementStates \ {act.dom[x]} :
         act' = [act EXCEPT !.dom[x] = e, !.changes = @ + 1]
    /\ UNCHANGED session

\* click_element

ClickResult(success, error) ==
    [NoResult EXCEPT !.success = success, !.error = error, !.clicked = success]

\* The except clauses of click_element: a Playwright timeout is reported as the
\* element not found within the timeout, any other exception as a failed click
\* with the text of the exception.
ce_except(a, e) ==
    IF e = "timeout"
    THEN ActReturn(a, ClickResult(FALSE, <<"not_found_within">>))
    ELSE ActReturn(a, ClickResult(FALSE, <<"click_failed", e>>))

\* Resume of `page = await self.browser_manager.get_current_page()`.
ce_get_page ==
    /\ act.op = "click_element" /\ act.pc = "get_page"
    /\ \E r \in {"ok", "error"} :
         LET a == ActLogged(act, "get_current_page", "none", r)
         IN  act' = IF r = "ok" THEN [a EXCEPT !.pc = "ce_wait"] ELSE ce_except(a, r)
    /\ UNCHANGED session

\* Resume of `await page.wait_for_selector(selector, timeout=...)`: it returns
\* when the selector matches a visible element and times out otherwise.
ce_wait ==
    /\ act.pc = "ce_wait"
    /\ \E r \in (IF Visible(act.dom[act.selector]) THEN {"ok"} ELSE {"timeout"})
                    \cup {"error"} :
         LET a == ActLogged(act, "wait_for_selector", act.selector, r)
         IN  act' = IF r = "ok" THEN [a EXCEPT !.pc = "ce_query"] ELSE ce_except(a, r)
    /\ UNCHANGED session

\* Resume of `element = await page.query_selector(selector)`, then the
\* not-found check.
ce_query ==
    /\ act.pc = "ce_query"
    /\ \E r \in (IF Exists(act.dom[act.selector]) THEN {"element"} ELSE {"none"})
                    \cup {"error"} :
         LET a == ActLogged(act, "query_selector", act.selector, r)
         IN  act' = CASE r = "element" -> [a EXCEPT !.pc = "ce_is_visible"]
                      [] r = "none"    -> ce_except(a, "not_found")
                      [] OTHER         -> ce_except(a, r)
    /\ UNCHANGED session

\* Resume of `is_visible = await element.is_visible()`.
ce_is_visible ==
    /\ act.pc = "ce_is_visible"
    /\ \E r \in {Answer(Visible(act.dom[act.selector])), "error"} :
         LET a == ActLogged(act, "is_visible", act.selector, r)
         IN  act' = IF r = "error"
                    THEN ce_except(a, r)
                    ELSE [a EXCEPT !.pc = "ce_is_enabled", !.is_visible = (r = "true")]
    /\ UNCHANGED session

\* Resume of `is_enabled = await element.is_enabled()`, then the two checks.
ce_is_enabled ==
    /\ act.pc = "ce_is_enabled"
    /\ \E r \in {Answer(Enabled(act.dom[act.selector])), "error"} :
         LET a == ActLogged(act, "is_enabled", act.selector, r)
         IN  act' = CASE r = "error"       -> ce_except(a, r)
                      [] ~a.is_visible     -> ce_except(a, "not_visible")
                      [] r = "false"       -> ce_except(a, "not_enabled")
                      [] OTHER             -> [a EXCEPT !.pc = "ce_click"]
    /\ UNCHANGED session

\* Resume of `await element.click()`, then the sleep and the return.
ce_click ==
    /\ act.pc = "ce_click"
    /\ \E r \in (IF act.dom[act.selector] = "ok" THEN {"ok"} ELSE {})
                    \cup {"timeout", "error"} :
         LET a == ActLogged(act, "click", act.selector, r)
         IN  act' = IF r = "ok"
                    THEN ActReturn(a, ClickResult(TRUE, <<>>))
                    ELSE ce_except(a, r)
    /\ UNCHANGED session

click_element ==
    \/ ce_get_page
    \/ ce_wait
    \/ ce_query
    \/ ce_is_visible
    \/ ce_is_enabled
    \/ ce_click

\* fill_form

\* The result dictionary built after the loop over the fields.
FillResult(a) ==
    [NoResult EXCEPT !.success = Len(a.filled_fields) > 0,
                     !.filled_count = Len(a.filled_fields),
                     !.failed_count = Len(a.failed_fields),
                     !.filled_fields = a.filled_fields,
                     !.failed_fields = a.failed_fields]

\* After the loop: the result is built, and submission is entered if submit was
\* requested and a field was filled.
ff_after_fill(a) ==
    LET b == [a EXCEPT !.result = FillResult(a)]
    IN  IF b.submit /\ b.filled_fields # <<>>
        THEN [b EXCEPT !.pc = "ff_probe", !.k = 1]
        ELSE ActReturn(b, b.result)

\* The `for` loop over the fields, from field a.i on.
ff_loop(a) ==
    IF a.i <= Len(a.fields) THEN [a EXCEPT !.pc = "ff_wait"] ELSE ff_after_fill(a)

\* Faulty variant of ff_field_failed: the failure of a field ends the loop.
ff_field_failed_stops(a, e) ==
    ff_after_fill([a EXCEPT !.failed_fields =
                                Append(@, [selector |-> a.fields[a.i], error |-> e]),
                            !.i = @ + 1])

\* The field is recorded as failed with reason e, and the loop goes on.
ff_field_failed(a, e) ==
    ff_loop([a EXCEPT !.failed_fields =
                          Append(@, [selector |-> a.fields[a.i], error |-> e]),
                      !.i = @ + 1])

\* The field is recorded as filled, and the loop goes on.
ff_field_filled(a) ==
    ff_loop([a EXCEPT !.filled_fields = Append(@, a.fields[a.i]), !.i = @ + 1])

\* Resume of `page = await self.browser_manager.get_current_page()`; an exception
\* here is caught by the outer except of fill_form.
ff_get_page ==
    /\ act.op = "fill_form" /\ act.pc = "get_page"
    /\ \E r \in {"ok", "error"} :
         LET a == ActLogged(act, "get_current_page", "none", r)
         IN  act' = IF r = "ok"
                    THEN ff_loop(a)
                    ELSE ActReturn(a, [NoResult EXCEPT !.error = <<"form_filling_failed", r>>])
    /\ UNCHANGED session

\* Resume of `await page.wait_for_selector(selector, timeout=5000)`.
ff_wait ==
    /\ act.pc = "ff_wait"
    /\ \E r \in (IF Visible(act.dom[act.fields[act.i]]) THEN {"ok"} ELSE {"timeout"})
                    \cup {"error"} :
         LET a == ActLogged(act, "wait_for_selector", act.fields[act.i], r)
         IN  act' = IF r = "ok" THEN [a EXCEPT !.pc = "ff_query"] ELSE ff_field_failed(a, r)
    /\ UNCHANGED session

\* Resume of `element = await page.query_selector(selector)`, then the
\* not-found check.
ff_query ==
    /\ act.pc = "ff_query"
    /\ \E r \in (IF Exists(act.dom[act.fields[act.i]]) THEN {"element"} ELSE {"none"})
                    \cup {"error"} :
         LET a == ActLogged(act, "query_selector", act.fields[act.i], r)
         IN  act' = CASE r = "element" -> [a EXCEPT !.pc = "ff_clear"]
                      [] r = "none"    -> ff_field_failed(a, "not_found")
                      [] OTHER         -> ff_field_failed(a, r)
    /\ UNCHANGED session

\* Resume of `await element.clear()`.
ff_clear ==
    /\ act.pc = "ff_clear"
    /\ \E r \in (IF act.dom[act.fields[act.i]] = "ok" THEN {"ok"} ELSE {"timeout"})
                    \cup {"error"} :
         LET a == ActLogged(act, "clear", act.fields[act.i], r)
         IN  act' = IF r = "ok" THEN [a EXCEPT !.pc = "ff_fill"] ELSE ff_field_failed(a, r)
    /\ UNCHANGED session

\* Resume of `await element.fill(str(value))`.
ff_fill ==
    /\ act.pc = "ff_fill"
    /\ \E r \in (IF act.dom[act.fields[act.i]] = "ok" THEN {"ok"} ELSE {"timeout"})
                    \cup {"error"} :
         LET a == ActLogged(act, "fill", act.fields[act.i], r)
         IN  act' = IF r = "ok" THEN ff_field_filled(a) ELSE ff_field_failed(a, r)
    /\ UNCHANGED session

\* The except of the submission: the error is added to the result.
ff_submit_except(a, e) ==
    ActReturn(a, [a.result EXCEPT !.submit_error = e])

\* A submit control was clicked or Enter was pressed: submitted is set, and
\* after the sleep the result is returned.
ff_submitted(a) ==
    ActReturn(a, [a.result EXCEPT !.submitted = "true"])

\* Faulty variant of ff_probe_next: the probing goes on after a match.
ff_probe_next_keeps_probing(a, r) ==
    CASE r = "error" -> ff_submit_except(a, r)
      [] a.k < Len(submit_selectors) -> [a EXCEPT !.k = @ + 1]
      [] OTHER -> IF r = "element" THEN [a EXCEPT !.pc = "ff_submit_click"]
                  ELSE [a EXCEPT !.pc = "ff_press"]

\* The loop over submit_selectors after probe a.k answered r: a match is
\* clicked; otherwise the next selector is probed, and after the last one Enter
\* is pressed on the last filled field.
ff_probe_next(a, r) ==
    CASE r = "error"   -> ff_submit_except(a, r)
      [] r = "element" -> [a EXCEPT !.pc = "ff_submit_click"]
      [] a.k < Len(submit_selectors) -> [a EXCEPT !.k = @ + 1]
      [] a.filled_fields # <<>> -> [a EXCEPT !.pc = "ff_press"]
      [] OTHER -> ActReturn(a, [a.result EXCEPT !.submitted = "false"])

\* Resume of `submit_element = await page.query_selector(submit_selector)`.
ff_probe ==
    /\ act.pc = "ff_probe"
    /\ \E r \in {"element", "none", "error"} :
         act' = ff_probe_next(ActLogged(act, "query_selector", submit_selectors[act.k], r), r)
    /\ UNCHANGED session

\* Resume of `await submit_element.click()`.
ff_submit_click ==
    /\ act.pc = "ff_submit_click"
    /\ \E r \in {"ok", "error"} :
         LET a == ActLogged(act, "click", submit_selectors[act.k], r)
         IN  act' = IF r = "ok" THEN ff_submitted(a) ELSE ff_submit_except(a, r)
    /\ UNCHANGED session

\* Resume of `await page.press(last_selector, "Enter")`.
ff_press ==
    /\ act.pc = "ff_press"
    /\ \E r \in {"ok", "error"} :
         LET last_selector == act.filled_fields[Len(act.filled_fields)]
             a == ActLogged(act, "press_enter", last_selector, r)
         IN  act' = IF r = "ok" THEN ff_submitted(a) ELSE ff_submit_except(a, r)
    /\ UNCHANGED session

fill_form ==
    \/ ff_get_page
    \/ ff_wait
    \/ ff_query
    \/ ff_clear
    \/ ff_fill
    \/ ff_probe
    \/ ff_submit_click
    \/ ff_press

\* navigate_to

\* The awaited call, its argument, its outcome and the timeout it was given (ms).
NavLogged(a, call, arg, outcome) ==
    [a EXCEPT !.calls = Append(@, <<call, arg, outcome, a.timeout * 1000>>)]

\* The method raises exception e to its caller.
ActRaise(a, e) == [a EXCEPT !.pc = "done", !.raised = e, !.returned = TRUE]

\* The except clauses of navigate_to: a Playwright timeout is raised again as the
\* RuntimeError "Navigation timeout after <timeout>s", anything else as the
\* RuntimeError "Navigation failed".
nav_except(a, e) ==
    IF e = "timeout"
    THEN ActRaise(a, <<"RuntimeError", "navigation_timeout", a.timeout>>)
    ELSE ActRaise(a, <<"RuntimeError", "navigation_failed", e>>)

\* Faulty variant of nav_entry: the url is not validated.
nav_entry_unvalidated(a) == [a EXCEPT !.pc = "get_page"]

\* The code of navigate_to before its first await: the validity check, outside
\* the try block, then the call of get_current_page.
nav_entry(a) ==
    IF ~is_valid_url(a.url)
    THEN ActRaise(a, <<"ValueError", "invalid_url">>)
    ELSE [a EXCEPT !.pc = "get_page"]

nav_enter ==
    /\ act.op = "navigate_to" /\ act.pc = "enter"
    /\ act' = nav_entry(act)
    /\ UNCHANGED session

\* Resume of `page = await self.browser_manager.get_current_page()`.
nav_get_page ==
    /\ act.op = "navigate_to" /\ act.pc = "get_page"
    /\ \E r \in {"ok", "error"} :
         LET a == ActLogged(act, "get_current_page", "none", r)
         IN  act' = IF r = "ok" THEN [a EXCEPT !.pc = "nav_goto"] ELSE nav_except(a, r)
    /\ UNCHANGED session

\* Faulty variant of nav_after_goto: the selector is waited for without a look at
\* the response.
nav_after_goto_unchecked(a, r) ==
    IF a.wait_for # "none" THEN [a EXCEPT !.pc = "nav_wait"] ELSE [a EXCEPT !.pc = "nav_title"]

\* After page.goto returned r: no response is an error; `if wait_for:` the
\* selector is waited for.
nav_after_goto(a, r) ==
    IF r = "none"
    THEN nav_except(a, "no_response")
    ELSE IF a.wait_for # "none" THEN [a EXCEPT !.pc = "nav_wait"]
         ELSE [a EXCEPT !.pc = "nav_title"]

\* Resume of `response = await page.goto(url, timeout=timeout * 1000)`.  A goto
\* that returns has moved the page; one that raises may or may not have.
nav_goto ==
    /\ act.pc = "nav_goto"
    /\ \E r \in {"response", "none", "timeout", "error"} :
         \E moved \in (IF r \in {"response", "none"} THEN {TRUE} ELSE BOOLEAN) :
            LET a == [NavLogged(act, "goto", "url", r) EXCEPT
                         !.page_url = IF moved THEN "final_url" ELSE @,
                         !.response = r]
            IN  act' = IF r \in {"response", "none"} THEN nav_after_goto(a, r)
                       ELSE nav_except(a, r)
    /\ UNCHANGED session

\* Resume of `await page.wait_for_selector(wait_for, timeout=timeout * 1000)`.
nav_wait ==
    /\ act.pc = "nav_wait"
    /\ \E r \in (IF Visible(act.dom[act.wait_for]) THEN {"ok"} ELSE {"timeout"})
                    \cup {"error"} :
         LET a == NavLogged(act, "wait_for_selector", act.wait_for, r)
         IN  act' = IF r = "ok" THEN [a EXCEPT !.pc = "nav_title"] ELSE nav_except(a, r)
    /\ UNCHANGED session

\* Resume of `title = await page.title()`, then the result dictionary.
nav_title ==
    /\ act.pc = "nav_title"
    /\ \E r \in {"ok", "error"} :
         LET a == ActLogged(act, "title", "none", r)
         IN  act' = IF r = "ok"
                    THEN ActReturn(a, [NoResult EXCEPT
                            !.success = TRUE, !.url = a.page_url,
                            !.waited_for = IF a.wait_for # "none" THEN a.wait_for
                                           ELSE "absent"])
                    ELSE nav_except(a, r)
    /\ UNCHANGED session

navigate_to ==
    \/ nav_enter
    \/ nav_get_page
    \/ nav_goto
    \/ nav_wait
    \/ nav_title

\* get_page_content

\* str.strip(): the text without its leading and trailing whitespace.
RECURSIVE strip(_)
strip(s) ==
    IF s = <<>> THEN <<>>
    ELSE IF Head(s) \in Whitespace THEN strip(Tail(s))
    ELSE IF s[Len(s)] \in Whitespace THEN strip(SubSeq(s, 1, Len(s) - 1))
    ELSE s

\* re.sub(r'\s+', ' ', content): each run of whitespace becomes one blank.
RECURSIVE collapse(_)
collapse(s) ==
    IF s = <<>> THEN <<>>
    ELSE IF Head(s) \in Whitespace
         THEN IF Len(s) > 1 /\ s[2] \in Whitespace
              THEN collapse(Tail(s))
              ELSE <<" ">> \o collapse(Tail(s))
         ELSE <<Head(s)>> \o collapse(Tail(s))

\* utils.extract_text_content without max_length.
extract_text_content(content) == strip(collapse(content))

\* "\n\n".join(content_parts)
RECURSIVE join(_)
join(parts) ==
    IF parts = <<>> THEN <<>>
    ELSE IF Len(parts) = 1 THEN parts[1]
    ELSE parts[1] \o <<"nl", "nl">> \o join(Tail(parts))

\* The except of get_page_content: a failure dictionary with the text of the
\* exception and, once the page is known, its url.
gpc_except(a, e) ==
    ActReturn(a, [NoResult EXCEPT !.error = <<"content_extraction_failed", e>>,
                                  !.url = IF GotPageOf(a) THEN a.page_url ELSE "null"])

\* Faulty variant of content_length: the length of the text before cleaning.
content_length_of_raw(raw, clean) == Len(raw)

\* len(clean_content)
content_length(raw, clean) == Len(clean)

\* The end of get_page_content: the text is cleaned and the result dictionary
\* built; links and link_count are added `if include_links:`.
gpc_result(a) ==
    LET clean_content == extract_text_content(a.content)
    IN  ActReturn(a, [NoResult EXCEPT
            !.success = TRUE, !.url = a.page_url,
            !.selector = a.selector,
            !.content = clean_content,
            !.content_length = content_length(a.content, clean_content),
            !.links = IF a.include_links THEN a.links ELSE <<>>,
            !.link_count = IF a.include_links THEN Len(a.links) ELSE 0,
            !.keys = {"content", "content_length"}
                     \cup IF a.include_links THEN {"links", "link_count"} ELSE {}])

\* The loop over link_elements.
gpc_links_loop(a) ==
    IF a.k <= Len(a.link_elements) THEN [a EXCEPT !.pc = "gpc_link"] ELSE gpc_result(a)

\* The content is known: `if include_links:` the links are collected.
gpc_after_content(a) ==
    IF a.include_links THEN [a EXCEPT !.pc = "gpc_links_query"] ELSE gpc_result(a)

\* The loop over the matched elements, then the join of the parts.
gpc_parts_loop(a) ==
    IF a.i <= a.elements THEN [a EXCEPT !.pc = "gpc_inner_text"]
    ELSE gpc_after_content([a EXCEPT !.content = join(a.parts)])

\* Resume of `page = await self.browser_manager.get_current_page()`.
gpc_get_page ==
    /\ act.op = "get_page_content" /\ act.pc = "get_page"
    /\ \E r \in {"ok", "error"} :
         LET a == ActLogged(act, "get_current_page", "none", r)
         IN  act' = IF r = "ok" THEN [a EXCEPT !.pc = "gpc_title"] ELSE gpc_except(a, r)
    /\ UNCHANGED session

\* Resume of `title = await page.title()`; then `if selector:`.
gpc_title ==
    /\ act.pc = "gpc_title"
    /\ \E r \in {"ok", "error"} :
         LET a == ActLogged(act, "title", "none", r)
         IN  act' = IF r # "ok" THEN gpc_except(a, r)
                    ELSE IF a.selector # "none" THEN [a EXCEPT !.pc = "gpc_query_all"]
                    ELSE [a EXCEPT !.pc = "gpc_body"]
    /\ UNCHANGED session

\* Resume of `elements = await page.query_selector_all(selector)`; an empty list
\* is answered with the no-elements failure dictionary.
gpc_query_all ==
    /\ act.pc = "gpc_query_all"
    /\ \E r \in (IF Exists(act.dom[act.selector]) THEN {"one", "two"} ELSE {"empty"})
                    \cup {"error"} :
         LET a == ActLogged(act, "query_selector_all", act.selector, r)
         IN  act' = CASE r = "error" -> gpc_except(a, r)
                      [] r = "empty" ->
                           ActReturn(a, [NoResult EXCEPT
                               !.error = <<"no_elements_found", a.selector>>,
                               !.url = a.page_url])
                      [] OTHER ->
                           gpc_parts_loop([a EXCEPT !.elements = IF r = "one" THEN 1 ELSE 2,
                                                    !.i = 1])
    /\ UNCHANGED session

\* Resume of `text_content = await element.inner_text()`; a text that is not
\* blank is kept, stripped.
gpc_inner_text ==
    /\ act.pc = "gpc_inner_text"
    /\ \/ \E text \in Texts :
            LET a == ActLogged(act, "inner_text", act.selector, "ok")
            IN  act' = gpc_parts_loop(
                          [a EXCEPT !.parts = IF strip(text) # <<>>
                                              THEN Append(@, strip(text)) ELSE @,
                                    !.i = @ + 1])
       \/ act' = gpc_except(ActLogged(act, "inner_text", act.selector, "error"), "error")
    /\ UNCHANGED session

\* Resume of `content = await page.inner_text("body")`.
gpc_body ==
    /\ act.pc = "gpc_body"
    /\ \/ \E text \in Texts :
            act' = gpc_after_content(
                      [ActLogged(act, "inner_text", "body", "ok") EXCEPT !.content = text])
       \/ act' = gpc_except(ActLogged(act, "inner_text", "body", "error"), "error")
    /\ UNCHANGED session

\* Resume of `link_elements = await page.query_selector_all("a[href]")`.
gpc_links_query ==
    /\ act.pc = "gpc_links_query"
    /\ \/ \E l \in LinkLists :
            act' = gpc_links_loop(
                      [ActLogged(act, "query_selector_all", "a[href]", "ok") EXCEPT
                          !.link_elements = l, !.k = 1])
       \/ act' = gpc_except(ActLogged(act, "query_selector_all", "a[href]", "error"),
                            "error")
    /\ UNCHANGED session

\* Resume of the awaits on one link, get_attribute("href") and inner_text(); the
\* link is kept when it has an href and a text that is not blank.
gpc_link ==
    /\ act.pc = "gpc_link"
    /\ \E r \in {"ok", "error"} :
         LET a    == ActLogged(act, "link", "a[href]", r)
             link == act.link_elements[act.k]
         IN  act' = IF r # "ok" THEN gpc_except(a, r)
                    ELSE gpc_links_loop(
                            [a EXCEPT !.links = IF link.href # "" /\ strip(link.text) # <<>>
                                                THEN Append(@, [text |-> strip(link.text),
                                                                url |-> "urljoin"])
                                                ELSE @,
                                      !.k = @ + 1])
    /\ UNCHANGED session

get_page_content ==
    \/ gpc_get_page
    \/ gpc_title
    \/ gpc_query_all
    \/ gpc_inner_text
    \/ gpc_body
    \/ gpc_links_query
    \/ gpc_link

\* take_screenshot

\* The except of take_screenshot: a failure dictionary with the text of the
\* exception and the selector of the call.
ts_except(a, e) ==
    ActReturn(a, [NoResult EXCEPT !.error = <<"screenshot_failed">> \o e,
                                  !.selector = a.selector])

\* The success dictionary of take_screenshot; the selector is added when given.
ScreenshotResult(a, screenshot_type) ==
    [NoResult EXCEPT !.success = TRUE, !.screenshot = "base64", !.type = screenshot_type,
                     !.url = a.page_url,
                     !.selector = IF a.selector # "none" THEN a.selector ELSE "absent"]

\* Faulty variant of ts_mode: full_page takes precedence over the selector.
ts_mode_full_page_first(a) ==
    IF a.selector # "none" /\ ~a.full_page THEN "ts_query" ELSE "ts_page_shot"

\* `if selector:` the element of the selector is captured, else the page.
ts_mode(a) == IF a.selector # "none" THEN "ts_query" ELSE "ts_page_shot"

\* Resume of `page = await self.browser_manager.get_current_page()`.
ts_get_page ==
    /\ act.op = "take_screenshot" /\ act.pc = "get_page"
    /\ \E r \in {"ok", "error"} :
         LET a == ActLogged(act, "get_current_page", "none", r)
         IN  act' = IF r = "ok" THEN [a EXCEPT !.pc = ts_mode(a)] ELSE ts_except(a, <<r>>)
    /\ UNCHANGED session

\* Resume of `element = await page.query_selector(selector)`, then the
\* not-found check.
ts_query ==
    /\ act.pc = "ts_query"
    /\ \E r \in (IF Exists(act.dom[act.selector]) THEN {"element"} ELSE {"none"})
                    \cup {"error"} :
         LET a == ActLogged(act, "query_selector", act.selector, r)
         IN  act' = CASE r = "element" -> [a EXCEPT !.pc = "ts_element_shot"]
                      [] r = "none"    -> ts_except(a, <<"not_found", a.selector>>)
                      [] OTHER         -> ts_except(a, <<r>>)
    /\ UNCHANGED session

\* Resume of `screenshot_bytes = await element.screenshot(type="png")`.
ts_element_shot ==
    /\ act.pc = "ts_element_shot"
    /\ \E r \in (IF Visible(act.dom[act.selector]) THEN {"ok"} ELSE {"timeout"})
                    \cup {"error"} :
         LET a == ActLogged(act, "element.screenshot", act.selector, r)
         IN  act' = IF r = "ok"
                    THEN ActReturn(a, ScreenshotResult(a, "element"))
                    ELSE ts_except(a, <<r>>)
    /\ UNCHANGED session

\* Resume of `screenshot_bytes = await page.screenshot(type="png", full_page=...)`.
ts_page_shot ==
    /\ act.pc = "ts_page_shot"
    /\ \E r \in {"ok", "error"} :
         LET a == ActLogged(act, "page.screenshot", Answer(act.full_page), r)
         IN  act' = IF r = "ok"
                    THEN ActReturn(a, ScreenshotResult(a, IF a.full_page THEN "full_page"
                                                                         ELSE "viewport"))
                    ELSE ts_except(a, <<r>>)
    /\ UNCHANGED session

take_screenshot ==
    \/ ts_get_page
    \/ ts_query
    \/ ts_element_shot
    \/ ts_page_shot

\* One call of an action on a page.
NextActions ==
    \/ navigate_to
    \/ get_page_content
    \/ click_element
    \/ fill_form
    \/ take_screenshot
    \/ dom_change

SpecActions == InitActions /\ [][NextActions]_vars

-----------------------------------------------------------------------------
\* utils.is_valid_url on the text of a url
\*
\* A string is a sequence of tokens: words, and the separators ":", "//", "@",
\* ".", "/" and the blank.

Schemes == {"http", "https", "ftp", "ftps", "HTTP", "mailto"}

\* The strings is_valid_url is given, composed of an optional scheme with or
\* without "//", optional credentials, a host, an optional port and path, and
\* optional blanks around.
UrlStrings ==
    {pad \o scheme \o cred \o host \o port \o path \o pad :
        pad \in {<<>>, <<" ">>},
        scheme \in {<<>>} \cup {<<sc, ":", "//">> : sc \in Schemes} \cup {<<"mailto", ":">>},
        cred \in {<<>>, <<"user", "@">>, <<"user", ".", "name", "@">>},
        host \in {<<>>, <<"localhost">>, <<"intranet">>, <<"example", ".", "com">>},
        port \in {<<>>, <<":", "8080">>},
        path \in {<<>>, <<"/", "path">>}}

\* The values is_valid_url is given: None, a number, or a string.
UrlValues ==
    {[type |-> "NoneType", str |-> <<>>], [type |-> "int", str |-> <<>>]}
    \cup {[type |-> "str", str |-> u] : u \in UrlStrings}

\* str.lower() of a scheme.
lower(w) == IF w = "HTTP" THEN "http" ELSE w

\* The tokens of s before the first token in stop.
RECURSIVE upto(_, _)
upto(s, stop) ==
    IF s = <<>> \/ Head(s) \in stop THEN <<>> ELSE <<Head(s)>> \o upto(Tail(s), stop)

\* urllib.parse.urlparse: the scheme is the word before the first ":", in lower
\* case; the netloc is what follows "//" up to the next "/", credentials and
\* port included.
urlparse(s) ==
    LET has_scheme == Len(s) >= 2 /\ s[2] = ":" /\ s[1] \in Schemes
        rest == IF has_scheme THEN SubSeq(s, 3, Len(s)) ELSE s
    IN  [scheme |-> IF has_scheme THEN lower(s[1]) ELSE "",
         netloc |-> IF rest # <<>> /\ Head(rest) = "//"
                    THEN upto(Tail(rest), {"/"}) ELSE <<>>]

\* The whole of is_valid_url: a value that is empty or no string is rejected; a
\* string is stripped, parsed and judged by its scheme and its netloc.
is_valid_url_value(v) ==
    IF v.str = <<>> \/ v.type # "str" THEN FALSE
    ELSE is_valid_url(urlparse(strip(v.str)))

InitUrl ==
    /\ browser_manager = None
    /\ browser_actions = None
    /\ mgr = <<>>
    /\ objs = <<>>
    /\ task = [t \in Tasks |-> IdleTask]
    /\ stopped = FALSE
    /\ act \in {[op |-> "is_valid_url", pc |-> "call", url |-> v, valid |-> FALSE] :
                  v \in UrlValues}

\* One call of is_valid_url.
validate_url ==
    /\ act.op = "is_valid_url" /\ act.pc = "call"
    /\ act' = [act EXCEPT !.pc = "done", !.valid = is_valid_url_value(act.url)]
    /\ UNCHANGED session

NextUrl == validate_url

SpecUrl == InitUrl /\ [][NextUrl]_vars

-----------------------------------------------------------------------------
\* Vocabulary of the properties

\* The Playwright calls an operation has made so far, and those that raised.
Called(tk, call) == \E j \in 1..Len(tk.log) : tk.log[j][1] = call
Raised(tk, call) == \E j \in 1..Len(tk.log) : tk.log[j] = <<call, "raise">>

CreateCalls == {"playwright.start", "getattr.browser_type", "browser.launch",
                "browser.new_context", "context.new_page"}
CloseCalls  == {"page.close", "context.close", "browser.close", "playwright.stop"}

CreateRaised(tk)   == \E c \in CreateCalls : Raised(tk, c)
TeardownRaised(tk) == \E c \in CloseCalls : Raised(tk, c)

\* The call found the session not initialized and ran initialize_browser.
LazyInit(tk) == tk.op = "tool" /\ (tk.entry.bm = None \/ tk.entry.ba = None)

\* The arguments fail validation: a required parameter is absent, or the url of
\* navigate_to fails is_valid_url.
ValidationFails(tk) ==
    /\ tk.name \in ToolNames
    /\ \/ RequiredParam(tk.name) \ tk.arguments.keys # {}
       \/ tk.name = "navigate_to" /\ ~is_valid_url(tk.arguments.url)

\* Nothing of the session differs from what the operation found.
SessionUntouched(tk) ==
    /\ Len(mgr) = tk.entry.nmgr
    /\ Len(objs) = tk.entry.nobjs
    /\ browser_manager = tk.entry.bm
    /\ browser_actions = tk.entry.ba
    /\ tk.log = <<>>
    /\ tk.entry.bm # None => mgr[tk.entry.bm] = tk.entry.h

-----------------------------------------------------------------------------
\* C1: a call of a tool name outside the registry is answered with the error
\* envelope naming the tool and touches nothing of the session: no
\* BrowserManager is constructed and no engine, browser, context or page is
\* started (the claim as stated; the code initializes the session first).
C1_UnknownToolLeavesSession ==
    \A t \in DOMAIN task :
        (task[t].op = "tool" /\ task[t].name \notin ToolNames) =>
            /\ SessionUntouched(task[t])
            /\ task[t].pc = "done" =>
                 task[t].resp = format_error_response("unknown_tool", task[t].name)

\* C2: a call whose arguments fail validation is rejected before the session
\* is touched: a session that was not started stays not started and no
\* Playwright call is made (the claim as stated; the code initializes first).
C2_ValidationBeforeSession ==
    \A t \in DOMAIN task :
        (task[t].op = "tool" /\ ValidationFails(task[t])) =>
            /\ SessionUntouched(task[t])
            /\ task[t].pc = "done" => task[t].resp.form = "envelope"

\* C3 (as amended): once the session is initialized (browser_manager and
\* browser_actions both set), the lazy-init step of a later tool call reports no
\* startup error, constructs no manager, creates no engine, browser or context
\* and leaves the engine, browser and context handles as they were, and the page
\* handle too when one was current; start() on a manager whose engine handle is
\* set creates nothing and leaves all four handles unchanged, and it raises the
\* already-running error.
C3_EnsureStartedIdempotent ==
    \A t \in DOMAIN task :
        LET tk == task[t]
        IN  /\ (tk.op = "tool" /\ ~LazyInit(tk)) =>
                /\ Len(mgr) = tk.entry.nmgr
                /\ browser_manager = tk.entry.bm
                /\ browser_actions = tk.entry.ba
                /\ ~Called(tk, "playwright.start")
                /\ ~Called(tk, "browser.launch")
                /\ ~Called(tk, "browser.new_context")
                /\ mgr[tk.entry.bm].playwright = tk.entry.h.playwright
                /\ mgr[tk.entry.bm].browser = tk.entry.h.browser
                /\ mgr[tk.entry.bm].context = tk.entry.h.context
                /\ tk.entry.h.page # None => mgr[tk.entry.bm] = tk.entry.h
                /\ tk.entry.h.page # None => Len(objs) = tk.entry.nobjs
                /\ tk.resp.msg \notin {"startup_failed", "already_running"}
            /\ (tk.op = "start" /\ tk.entry.h.playwright # None) =>
                /\ tk.pc = "done"
                /\ tk.err = "already_running"
                /\ tk.log = <<>>
                /\ mgr[tk.m] = tk.entry.h
                /\ Len(objs) = tk.entry.nobjs

\* C3 witness: a tool call made on the initialized session has succeeded with
\* the four objects of the one start.
C3_Witness ==
    \E t \in DOMAIN task :
        /\ task[t].op = "tool" /\ ~LazyInit(task[t])
        /\ task[t].pc = "done" /\ task[t].resp.form = "success"
        /\ Len(objs) = 4

\* C3 (as stated): start() on the started manager is a no-op that reports no
\* error.
C3_StartOnStartedReportsNoError ==
    \A t \in DOMAIN task :
        (task[t].op = "start" /\ task[t].entry.h.playwright # None /\ task[t].pc = "done")
            => task[t].err = "none"

\* C4 (as stated): whichever teardown step of cleanup() raises, every later
\* step is still attempted: each handle cleanup() found set has had its close
\* called; and cleanup() raises nothing.
C4_TeardownStepsIsolated ==
    \A t \in DOMAIN task :
        (task[t].op = "cleanup" /\ task[t].pc = "done") =>
            /\ task[t].err = "none"
            /\ \A i \in 1..4 :
                 task[t].entry.h[TeardownHandle[i]] # None =>
                     Called(task[t], TeardownCall[i])

\* C5: in every cleanup(), whoever called it, the context close is awaited only
\* with the page handle unset, the browser close only with page and context
\* unset, the engine stop only with page, context and browser unset.
C5_TeardownOrder ==
    \A t \in DOMAIN task :
        LET h == mgr[task[t].m]
        IN  /\ task[t].pc = "cl_context" => h.page = None
            /\ task[t].pc = "cl_browser" => h.page = None /\ h.context = None
            /\ task[t].pc = "cl_engine" =>
                 h.page = None /\ h.context = None /\ h.browser = None

\* C5 witness: the cleanup() of a failed start() is stopping the engine after
\* it closed the context and the browser.
C5_Witness ==
    \E t \in DOMAIN task :
        /\ task[t].pc = "cl_engine" /\ task[t].why = "start_fail"
        /\ <<"context.close", "ok">> = task[t].log[Len(task[t].log) - 1]
        /\ <<"browser.close", "ok">> = task[t].log[Len(task[t].log)]

\* C6: cleanup() on a manager with no handle set makes no Playwright call and
\* changes nothing; and a cleanup() in which no step raised leaves no handle
\* set, so that a second cleanup() is such a call.
C6_CleanupIdempotent ==
    \A t \in DOMAIN task :
        LET tk == task[t]
        IN  /\ (tk.op = "cleanup" /\ tk.entry.h = NoHandles) =>
                /\ tk.pc = "done" /\ tk.err = "none" /\ tk.log = <<>>
                /\ mgr[tk.m] = NoHandles
                /\ Len(objs) = tk.entry.nobjs
            /\ (tk.op = "cleanup" /\ tk.pc = "done" /\ ~TeardownRaised(tk)) =>
                /\ mgr[tk.m] = NoHandles
                /\ \A i \in 1..4 :
                     tk.entry.h[TeardownHandle[i]] # None =>
                         ~IsLive(objs, tk.entry.h[TeardownHandle[i]])

\* C6 witness: cleanup() has returned on a manager that an earlier cleanup()
\* had left without handles.
C6_Witness ==
    \E t \in DOMAIN task :
        /\ task[t].op = "cleanup" /\ task[t].pc = "done"
        /\ task[t].entry.h = NoHandles
        /\ Len(objs) >= 4

\* The operation runs start(): a direct start(), a restart(), or the lazy init
\* of a tool call.
RunsStart(tk) == tk.op \in {"start", "restart"} \/ LazyInit(tk)

\* The creation call of start() whose object teardown step i closes.
StartCall == <<"context.new_page", "browser.new_context", "browser.launch",
               "playwright.start">>

\* C7: when a sub-step of start() fails, start() goes through cleanup() and
\* then fails with the startup error; and if no teardown step raised, every
\* object that start created has been closed, the four handles are unset and
\* nothing created since the operation began is still open.
C7_FailedStartTearsDown ==
    \A t \in DOMAIN task :
        LET tk == task[t]
        IN  (RunsStart(tk) /\ CreateRaised(tk)) =>
              /\ tk.pc \in {"cl_page", "cl_context", "cl_browser", "cl_engine", "done"}
              /\ tk.why = "start_fail"
              /\ tk.pc = "done" =>
                   IF tk.op = "tool"
                   THEN tk.resp = format_error_response("startup_failed", tk.name)
                   ELSE tk.err = "startup_failed"
              /\ (tk.pc = "done" /\ ~TeardownRaised(tk)) =>
                   /\ mgr[tk.m] = NoHandles
                   /\ \A x \in (tk.entry.nobjs + 1)..Len(objs) : ~objs[x].live
                   /\ \A i \in 1..4 :
                        Called(tk, StartCall[i]) /\ ~Raised(tk, StartCall[i])
                            => Called(tk, TeardownCall[i])

\* C7 witness: the first tool call has failed in the page creation of start(),
\* after the context, the browser and the engine were torn down.
C7_Witness ==
    \E t \in DOMAIN task :
        /\ task[t].op = "tool" /\ task[t].pc = "done"
        /\ Raised(task[t], "context.new_page")
        /\ ~TeardownRaised(task[t])
        /\ Called(task[t], "playwright.stop")
        /\ Len(objs) = 3

\* C8 (as stated): after a tool call whose session start failed, a later tool
\* call attempts no new start (no manager is constructed, no engine or browser
\* is started) and fails with the startup error.
C8_StartupFailureSticky ==
    \A t \in DOMAIN task :
        LET tk == task[t]
        IN  (tk.op = "tool" /\ tk.entry.bm # None /\ tk.entry.ba = None) =>
              /\ Len(mgr) = tk.entry.nmgr
              /\ ~Called(tk, "playwright.start")
              /\ ~Called(tk, "browser.launch")
              /\ tk.pc = "done" =>
                   tk.resp = format_error_response("startup_failed", tk.name)

\* C9 (as stated): whatever the prior state and whether or not a teardown step
\* of the old session fails, a restart() whose creation steps succeed ends in a
\* started session: engine, browser, context and page all created by this
\* restart and open, the page being the only page of the context.
C9_RestartStartsFresh ==
    \A t \in DOMAIN task :
        LET tk == task[t]
            h  == mgr[tk.m]
        IN  (tk.op = "restart" /\ tk.pc = "done" /\ ~CreateRaised(tk)) =>
              /\ tk.err = "none"
              /\ \A i \in 1..4 :
                   /\ h[TeardownHandle[i]] > tk.entry.nobjs
                   /\ IsLive(objs, h[TeardownHandle[i]])
              /\ ContextPages(objs, h.context) = {h.page}

\* Manager m holds an engine process, a browser or a context that is open and
\* that no close was ever attempted on.
HoldsLive(m) ==
    \E f \in {"playwright", "browser", "context"} :
        /\ mgr[m][f] # None
        /\ IsLive(objs, mgr[m][f])
        /\ ~objs[mgr[m][f]].close_raised

\* C10 (as stated, counting only objects that are certainly alive): whatever
\* tool calls were made, at most one manager holds a live engine process,
\* browser or context.
C10_AtMostOneSession ==
    Cardinality({m \in 1..Len(mgr) : HoldsLive(m)}) <= 1

\* C11: in every reachable state of every manager, inside start(), cleanup(),
\* close_page() and restart() and after any step failure included, a set page
\* handle implies a set context handle, a set context a set browser, a set
\* browser a set engine handle; and the page handle never refers to a closed page.
C11_HandleOwnership ==
    \A m \in 1..Len(mgr) :
        LET h == mgr[m]
        IN  /\ h.page # None => h.context # None
            /\ h.context # None => h.browser # None
            /\ h.browser # None => h.playwright # None
            /\ h.page # None => IsLive(objs, h.page)

\* C11 witness: a cleanup() was aborted by the browser close raising, after the
\* page and the context were closed and their handles unset.
C11_Witness ==
    \E t \in DOMAIN task :
        /\ task[t].op \in {"cleanup", "restart"} /\ task[t].pc = "done"
        /\ Raised(task[t], "browser.close")
        /\ mgr[task[t].m].context = None
        /\ mgr[task[t].m].browser # None

\* C12: get_current_page() with a current page returns it, opens no page and
\* changes nothing; with no current page but a context, when the page creation
\* does not raise, exactly one page is opened, in that context, and it is made
\* current and returned; with no context it raises the not-started error and
\* changes nothing.
C12_GetCurrentPage ==
    \A t \in DOMAIN task :
        LET tk == task[t]
            e  == tk.entry
        IN  tk.op = "get_current_page" =>
              /\ e.h.page # None =>
                    /\ tk.pc = "done" /\ tk.err = "none" /\ tk.log = <<>>
                    /\ tk.target = e.h.page
                    /\ mgr[tk.m] = e.h
                    /\ Len(objs) = e.nobjs
              /\ (e.h.page = None /\ e.h.context = None) =>
                    /\ tk.pc = "done" /\ tk.err = "not_started" /\ tk.log = <<>>
                    /\ mgr[tk.m] = e.h
                    /\ Len(objs) = e.nobjs
              /\ (e.h.page = None /\ e.h.context # None /\ tk.pc = "done"
                    /\ ~Raised(tk, "context.new_page")) =>
                    /\ tk.err = "none"
                    /\ tk.log = << <<"context.new_page", "ok">> >>
                    /\ Len(objs) = e.nobjs + 1
                    /\ objs[Len(objs)] = NewObj("page", e.h.context)
                    /\ tk.target = Len(objs)
                    /\ mgr[tk.m] = [e.h EXCEPT !.page = Len(objs)]
              /\ (e.h.page = None /\ e.h.context # None /\ tk.pc # "done") =>
                    /\ tk.pc = "gcp_new_page"
                    /\ mgr[tk.m] = e.h
                    /\ Len(objs) = e.nobjs

\* C12 witness: get_current_page() has opened a page in a context that had no
\* current page and returned it.
C12_Witness ==
    \E t \in DOMAIN task :
        /\ task[t].op = "get_current_page" /\ task[t].pc = "done"
        /\ task[t].entry.h.page = None /\ task[t].entry.h.context # None
        /\ task[t].target = Len(objs)
        /\ mgr[task[t].m].page = Len(objs)

\* C13: close_page(page) closes the given page, or the current page when none is
\* given.  If the closed page was current, the current page becomes another open
\* page of the context when there is one and is unset otherwise, the context
\* staying set so that the next get_current_page() opens a page; if it was not
\* current, the current page is unchanged.  Nothing else is closed.
C13_ClosePage ==
    \A t \in DOMAIN task :
        LET tk == task[t]
            e  == tk.entry
            h  == mgr[tk.m]
        IN  (tk.op = "close_page" /\ tk.pc = "done" /\ tk.err = "none") =>
              /\ tk.target = None => (e.h.page = None /\ tk.log = <<>> /\ h = e.h)
              /\ tk.target # None =>
                    /\ tk.log = << <<"page.close", "ok">> >>
                    /\ ~IsLive(objs, tk.target)
                    /\ h.context = e.h.context /\ h.browser = e.h.browser
                    /\ h.playwright = e.h.playwright
                    /\ IsLive(objs, h.context)
              /\ (tk.target # None /\ tk.target # e.h.page) => h.page = e.h.page
              /\ (tk.target # None /\ tk.target = e.h.page) =>
                    IF ContextPages(objs, h.context) # {}
                    THEN h.page \in ContextPages(objs, h.context)
                    ELSE h.page = None /\ NeedsPage(tk.m)

\* C13 witness: the current page was closed while another page of the context
\* was open, and that page is now current.
C13_Witness ==
    \E t \in DOMAIN task :
        /\ task[t].op = "close_page" /\ task[t].pc = "done" /\ task[t].err = "none"
        /\ task[t].target = task[t].entry.h.page
        /\ task[t].target # None
        /\ mgr[task[t].m].page # None
        /\ mgr[task[t].m].page # task[t].target

\* An exception reached the try block of handle_call_tool: the session start
\* failed, the name is unknown, a required parameter is missing, navigate_to
\* raised (invalid URL, or a failed page operation), or the result could not be
\* serialized.
ReachedDispatch(tk) ==
    \/ CreateRaised(tk)
    \/ tk.name \notin ToolNames
    \/ ValidationFails(tk)
    \/ tk.name = "navigate_to" /\ Raised(tk, "page.op")
    \/ Raised(tk, "json.dumps")

\* C14: for every tool name and argument mapping, whatever the session start or
\* the action raises, no exception leaves handle_call_tool; when it returns it
\* returns one response; and when an exception reached its try block, that
\* response is the error envelope naming the tool.
C14_NoExceptionCrossesDispatch ==
    \A t \in DOMAIN task :
        LET tk == task[t]
        IN  tk.op = "tool" =>
              /\ tk.err = "none"
              /\ tk.pc = "done" => tk.resp.form \in {"envelope", "success", "failure"}
              /\ tk.pc # "done" => tk.resp = NoResp
              /\ (tk.pc = "done" /\ ReachedDispatch(tk)) =>
                    /\ tk.resp.form = "envelope"
                    /\ tk.resp.isError
                    /\ tk.resp.tool = tk.name

\* C14 witness: a result that json.dumps could not serialize was answered with
\* the error envelope.
C14_Witness ==
    \E t \in DOMAIN task :
        /\ task[t].op = "tool" /\ task[t].pc = "done"
        /\ Raised(task[t], "json.dumps")
        /\ task[t].resp = format_error_response("not_serializable", "execute_javascript")

\* C15 (as stated): whenever a tool call does not end in an action's success
\* payload, its response is the error envelope with isError true; a response
\* without isError true is returned only for a success payload.
C15_FailureIsEnvelope ==
    \A t \in DOMAIN task :
        (task[t].op = "tool" /\ task[t].pc = "done" /\ task[t].resp.form # "success") =>
            task[t].resp = format_error_response(task[t].resp.msg, task[t].name)

C17_ActionsCatchExceptions ==
    \A t \in DOMAIN task :
        LET tk == task[t]
        IN  (tk.op = "tool" /\ tk.pc = "done" /\ Raised(tk, "page.op")) =>
              IF tk.name = "navigate_to"
              THEN tk.resp = format_error_response("op_failed", tk.name)
              ELSE tk.resp = ResultPayload(tk.name, FALSE, "op_failed")

\* C17 witness: a page operation of navigate_to raised and the call was answered
\* with the error envelope.
C17_Witness ==
    \E t \in DOMAIN task :
        /\ task[t].op = "tool" /\ task[t].pc = "done"
        /\ task[t].name = "navigate_to"
        /\ Raised(task[t], "page.op")
        /\ task[t].resp.form = "envelope"

\* C17 (as stated): in each of the six actions an exception of the delegated
\* operation is returned as a failure payload and never reaches the dispatch
\* layer.
C17_NoActionPropagates ==
    \A t \in DOMAIN task :
        (task[t].op = "tool" /\ task[t].pc = "done" /\ Raised(task[t], "page.op")) =>
            task[t].resp.form = "failure"

-----------------------------------------------------------------------------
\* Vocabulary of the properties of click_element and fill_form

\* The calls of the method so far that are call `call`, and their arguments.
ActCalls(call) == SelectSeq(act.calls, LAMBDA c : c[1] = call)
ActArgs(call) == [j \in 1..Len(ActCalls(call)) |-> ActCalls(call)[j][2]]

Range(f) == {f[j] : j \in 1..Len(f)}

\* The call has obtained its page.
GotPage == act.calls # <<>> /\ act.calls[1] = <<"get_current_page", "none", "ok">>

\* Some call made on selector x raised something other than a timeout.
ErrorOn(x) == \E j \in 1..Len(act.calls) : act.calls[j][2] = x /\ act.calls[j][3] = "error"

\* The awaits of the submission made so far: the probes of the submit
\* selectors, the click and the Enter keystroke.
SubmitSteps ==
    SelectSeq(act.calls,
              LAMBDA c : \/ c[1] \in {"query_selector", "click"} /\ c[2] \in Range(submit_selectors)
                         \/ c[1] = "press_enter")
SubmitProbes == SelectSeq(SubmitSteps, LAMBDA c : c[1] = "query_selector")

C19_SubmitPolicy ==
    act.op = "fill_form" =>
      LET n == Len(SubmitProbes)
          m == Len(SubmitSteps)
      IN  /\ SubmitSteps # <<>> => (act.submit /\ act.filled_fields # <<>> /\ act.i = Len(act.fields) + 1)
          /\ (GotPage /\ act.returned /\ act.submit /\ act.filled_fields # <<>>)
                => SubmitSteps # <<>>
          /\ n <= Len(submit_selectors)
          /\ \A j \in 1..n : /\ SubmitSteps[j] = SubmitProbes[j]
                             /\ SubmitProbes[j][2] = submit_selectors[j]
                             /\ j < n => SubmitProbes[j][3] = "none"
          /\ m <= n + 1
          /\ (m = n + 1 /\ SubmitSteps[m][1] = "click") =>
                /\ SubmitProbes[n][3] = "element"
                /\ SubmitSteps[m][2] = submit_selectors[n]
          /\ (m = n + 1 /\ SubmitSteps[m][1] = "press_enter") =>
                /\ n = Len(submit_selectors)
                /\ SubmitProbes[n][3] = "none"
                /\ SubmitSteps[m][2] = act.filled_fields[Len(act.filled_fields)]
          /\ (n > 0 /\ SubmitProbes[n][3] = "element" /\ act.returned) =>
                (m = n + 1 /\ SubmitSteps[m][1] = "click")
          /\ (act.returned /\ SubmitSteps # <<>>) =>
                /\ act.result.submit_error = "error" <=> SubmitSteps[m][3] = "error"
                /\ act.result.submit_error = "none" <=> act.result.submitted = "true"
                /\ act.result.filled_count = Len(act.filled_fields)
                /\ act.result.failed_count = Len(act.failed_fields)
                /\ act.result.filled_fields = act.filled_fields
                /\ act.result.failed_fields = act.failed_fields
                /\ act.result.success
          /\ (act.returned /\ SubmitSteps = <<>>) =>
                act.result.submitted = "absent" /\ act.result.submit_error = "none"

\* C19 witness: the third submit selector matched after two that did not, its
\* click raised, and the result reports the error beside one filled and one
\* failed field.
C19_Witness ==
    /\ act.op = "fill_form" /\ act.returned
    /\ Len(SubmitProbes) = 3 /\ Len(SubmitSteps) = 4
    /\ SubmitSteps[4] = <<"click", submit_selectors[3], "error">>
    /\ act.result.submit_error = "error"
    /\ act.result.filled_count = 1 /\ act.result.failed_count = 1

\* C20 (as stated): click_element clicks only after the element was found,
\* visible and enabled; for an element that is not visible it returns a failure
\* whose reason is that it is not visible, for one that is not enabled a failure
\* whose reason is that it is not enabled, both distinct from the
\* not-found/timeout reason; and in these failure cases nothing is clicked.
C20_ClickOnlyVisibleEnabled ==
    (act.op = "click_element" /\ act.returned) =>
      LET x == act.selector
          steady == act.changes = 0 /\ ~ErrorOn(x) /\ GotPage
      IN  /\ ActCalls("click") # <<>> =>
                /\ <<"query_selector", x, "element">> \in Range(act.calls)
                /\ <<"is_visible", x, "true">> \in Range(act.calls)
                /\ <<"is_enabled", x, "true">> \in Range(act.calls)
          /\ (steady /\ Exists(act.dom0[x]) /\ ~Visible(act.dom0[x])) =>
                act.result.error = <<"click_failed", "not_visible">>
          /\ (steady /\ Visible(act.dom0[x]) /\ ~Enabled(act.dom0[x])) =>
                act.result.error = <<"click_failed", "not_enabled">>
          /\ (steady /\ ~Exists(act.dom0[x])) =>
                act.result.error = <<"not_found_within">>
          /\ act.result.error \in {<<"click_failed", "not_visible">>,
                                   <<"click_failed", "not_enabled">>,
                                   <<"click_failed", "not_found">>} =>
                ActCalls("click") = <<>>
          /\ act.result.success <=> <<"click", x, "ok">> \in Range(act.calls)

\* C21: take_screenshot with a selector captures the element, whatever full_page
\* is; without a selector it captures the full page if full_page is true and the
\* viewport otherwise; when the selector matches no element it returns a failure
\* that names the selector and holds no screenshot, and it captures nothing.
C21_ScreenshotMode ==
    (act.op = "take_screenshot" /\ act.returned) =>
      LET r == act.result
          captures == ActCalls("element.screenshot") \o ActCalls("page.screenshot")
      IN  /\ r.success =>
                /\ r.screenshot = "base64"
                /\ Len(captures) = 1 /\ captures[1][3] = "ok"
                /\ r.type = IF act.selector # "none" THEN "element"
                            ELSE IF act.full_page THEN "full_page" ELSE "viewport"
                /\ r.type = "element" <=> captures[1] = <<"element.screenshot", act.selector, "ok">>
                /\ r.type # "element" =>
                      captures[1] = <<"page.screenshot", Answer(act.full_page), "ok">>
                /\ r.selector = IF act.selector # "none" THEN act.selector ELSE "absent"
          /\ ~r.success => (r.screenshot = "absent" /\ r.type = "absent")
          /\ act.selector # "none" => ActCalls("page.screenshot") = <<>>
          /\ act.selector = "none" =>
                (ActCalls("element.screenshot") = <<>> /\ ActCalls("query_selector") = <<>>)
          /\ <<"query_selector", act.selector, "none">> \in Range(act.calls) =>
                /\ ~r.success
                /\ r.error = <<"screenshot_failed", "not_found", act.selector>>
                /\ r.selector = act.selector
                /\ r.screenshot = "absent"
                /\ captures = <<>>
          /\ (GotPage /\ act.selector # "none" /\ act.changes = 0
                /\ act.dom0[act.selector] = "absent" /\ ~ErrorOn(act.selector)) =>
                <<"query_selector", act.selector, "none">> \in Range(act.calls)

\* C21 witness: with a selector and full_page both given, the element was
\* captured.
C21_Witness ==
    /\ act.op = "take_screenshot" /\ act.returned
    /\ act.selector = "a" /\ act.full_page
    /\ act.result.success /\ act.result.type = "element"

\* C22: the names of the tools handle_list_tools returns are pairwise distinct
\* and are exactly the names handle_call_tool routes to an action: a call whose
\* name is listed is never answered "unknown tool", a call whose name is not
\* listed reaches no action and is answered "unknown tool" unless the session
\* start failed first; and the listing is the same whatever the state of the
\* session, which it leaves as it was.
C22_RegistryMatchesDispatch ==
    \A t \in DOMAIN task :
        LET tk == task[t]
            listed == {handle_list_tools[i] : i \in DOMAIN handle_list_tools}
        IN  /\ (tk.op = "list_tools" /\ tk.pc = "done") =>
                 /\ tk.tools = <<"navigate_to", "get_page_content", "click_element",
                                 "fill_form", "take_screenshot", "execute_javascript">>
                 /\ \A i, j \in DOMAIN tk.tools : tk.tools[i] = tk.tools[j] => i = j
                 /\ {tk.tools[i] : i \in DOMAIN tk.tools} = RoutedNames
                 /\ tk.log = <<>>
                 /\ Len(objs) = tk.entry.nobjs /\ Len(mgr) = tk.entry.nmgr
                 /\ browser_manager = tk.entry.bm /\ browser_actions = tk.entry.ba
            /\ (tk.op = "tool" /\ tk.pc = "done") =>
                 /\ tk.name \in listed => tk.resp.msg # "unknown_tool"
                 /\ tk.name \notin listed =>
                       /\ ~Called(tk, "page.op")
                       /\ tk.resp = format_error_response(
                              IF CreateRaised(tk) THEN "startup_failed" ELSE "unknown_tool",
                              tk.name)

\* C22 witness: the tools were listed while a session was running.
C22_Witness ==
    \E t \in DOMAIN task :
        /\ task[t].op = "list_tools" /\ task[t].pc = "done"
        /\ browser_manager # None /\ mgr[browser_manager].page # None

\* C23: navigate_to with a url that fails is_valid_url raises the invalid-url
\* ValueError before anything is awaited: the current page is not asked for, no
\* goto and no selector wait is issued, and the page keeps its url.
C23_InvalidUrlRejectedFirst ==
    (act.op = "navigate_to" /\ ~is_valid_url(act.url)) =>
        /\ act.calls = <<>>
        /\ act.page_url = "about:blank"
        /\ act.returned => (act.raised = <<"ValueError", "invalid_url">>
                            /\ act.result = NoResult)

\* C23 witness: a call with a url that is no url has been rejected.
C23_Witness ==
    /\ act.op = "navigate_to" /\ act.returned
    /\ act.url = NotAUrl
    /\ act.raised = <<"ValueError", "invalid_url">>

\* The texts of the exceptions the page raises, as str() gives them.
DelegatedExceptions == {"timeout", "error"}

\* C24: in every action that waits with a bound, a wait that timed out is
\* reported as a timeout failure made by the action, which names the bound and
\* the operation and differs from the report of any other failure, and not as
\* the text of the delegated exception: navigate_to (goto and the wait for
\* wait_for), click_element (the wait for the selector) and fill_form (the wait
\* for each field).
C24_TimeoutIsTimeoutFailure ==
    act.returned =>
        /\ act.op = "navigate_to" =>
             /\ (\E j \in 1..Len(act.calls) :
                    /\ act.calls[j][1] \in {"goto", "wait_for_selector"}
                    /\ act.calls[j][3] = "timeout")
                  => act.raised = <<"RuntimeError", "navigation_timeout", act.timeout>>
             /\ \A j \in 1..Len(act.calls) :
                    act.calls[j][1] \in {"goto", "wait_for_selector"} =>
                        act.calls[j][4] = act.timeout * 1000
             /\ (act.raised # <<>> /\ act.raised[2] = "navigation_timeout") =>
                    act.calls[Len(act.calls)][3] = "timeout"
        /\ act.op = "click_element" =>
             (<<"wait_for_selector", act.selector, "timeout">> \in Range(act.calls)
                 => act.result.error = <<"not_found_within">>)
        /\ act.op = "fill_form" =>
             \A j \in 1..Len(act.failed_fields) :
                 <<"wait_for_selector", act.failed_fields[j].selector, "timeout">>
                        \in Range(act.calls)
                     => act.failed_fields[j].error \notin DelegatedExceptions

\* C24, as far as it holds: the timeouts of navigate_to and of click_element are
\* reported as above.
C24_NavigateAndClickTimeouts ==
    act.returned =>
        /\ act.op = "navigate_to" =>
             /\ (\E j \in 1..Len(act.calls) :
                    /\ act.calls[j][1] \in {"goto", "wait_for_selector"}
                    /\ act.calls[j][3] = "timeout")
                  => act.raised = <<"RuntimeError", "navigation_timeout", act.timeout>>
             /\ (act.raised # <<>> /\ act.raised[2] = "navigation_timeout") =>
                    act.calls[Len(act.calls)][3] = "timeout"
        /\ act.op = "click_element" =>
             (<<"wait_for_selector", act.selector, "timeout">> \in Range(act.calls)
                 => act.result.error = <<"not_found_within">>)

\* C28: navigate_to issues the navigation first; when the navigation gives no
\* response the call fails and no selector is waited for; the wait for wait_for
\* is issued only when wait_for is given, only after the navigation returned its
\* response, and with the timeout the navigation had; the success dictionary
\* holds waited_for, equal to wait_for, exactly when wait_for was given; and when
\* the wait times out after the navigation returned, the call fails and the page
\* stays on the url it was navigated to.
C28_NavigateStepOrder ==
    act.op = "navigate_to" =>
      LET gotos == ActCalls("goto")
          waits == ActCalls("wait_for_selector")
      IN  /\ Len(gotos) <= 1 /\ Len(waits) <= 1
          /\ Len(act.calls) >= 2 => act.calls[2][1] = "goto"
          /\ (gotos # <<>> /\ gotos[1][3] = "none") =>
                /\ waits = <<>>
                /\ act.returned
                /\ act.raised = <<"RuntimeError", "navigation_failed", "no_response">>
          /\ waits # <<>> =>
                /\ act.wait_for # "none" /\ waits[1][2] = act.wait_for
                /\ Len(act.calls) >= 3 /\ act.calls[3] = waits[1]
                /\ gotos[1][3] = "response"
                /\ waits[1][4] = gotos[1][4] /\ waits[1][4] = act.timeout * 1000
          /\ (act.returned /\ gotos # <<>> /\ gotos[1][3] = "response"
                /\ act.wait_for # "none") => waits # <<>>
          /\ (act.returned /\ act.result.success) =>
                /\ act.raised = <<>>
                /\ gotos[1][3] = "response"
                /\ act.result.waited_for =
                      IF act.wait_for # "none" THEN act.wait_for ELSE "absent"
                /\ act.wait_for # "none" => waits[1][3] = "ok"
                /\ act.result.url = "final_url"
          /\ (waits # <<>> /\ waits[1][3] = "timeout") =>
                /\ act.returned /\ ~act.result.success
                /\ act.raised = <<"RuntimeError", "navigation_timeout", act.timeout>>
                /\ act.page_url = "final_url"

\* C28 witness: the navigation returned its response and the wait for wait_for
\* timed out.
C28_Witness ==
    /\ act.op = "navigate_to" /\ act.returned
    /\ ActCalls("goto") # <<>> /\ ActCalls("goto")[1][3] = "response"
    /\ ActCalls("wait_for_selector") # <<>>
    /\ ActCalls("wait_for_selector")[1][3] = "timeout"
    /\ act.page_url = "final_url"

\* C29: get_page_content with a selector that matches no element returns, and
\* does not raise, a failure dictionary whose error names the selector and which
\* holds no content; a call that succeeds returns the content with
\* content_length equal to its length, and links and link_count, equal to the
\* number of links, exactly when include_links is true.
C29_PageContent ==
    (act.op = "get_page_content" /\ act.returned) =>
      LET r == act.result
      IN  /\ act.raised = <<>>
          /\ <<"query_selector_all", act.selector, "empty">> \in Range(act.calls) =>
                /\ ~r.success
                /\ r.error = <<"no_elements_found", act.selector>>
                /\ r.keys = {}
                /\ act.calls[Len(act.calls)] = <<"query_selector_all", act.selector, "empty">>
          /\ (GotPage /\ act.selector # "none" /\ act.changes = 0
                /\ act.dom0[act.selector] = "absent"
                /\ \A j \in 1..Len(act.calls) : act.calls[j][3] # "error") =>
                <<"query_selector_all", act.selector, "empty">> \in Range(act.calls)
          /\ ~r.success => r.keys = {}
          /\ r.success =>
                /\ {"content", "content_length"} \subseteq r.keys
                /\ r.content_length = Len(r.content)
                /\ r.content = extract_text_content(act.content)
                /\ ("links" \in r.keys) <=> act.include_links
                /\ ("link_count" \in r.keys) <=> act.include_links
                /\ act.include_links => r.link_count = Len(r.links)
                /\ act.selector # "none" =>
                      <<"query_selector_all", act.selector, "empty">> \notin Range(act.calls)

\* C29 witness: a call with include_links succeeded on a text that cleaning made
\* shorter, and a link was kept.
C29_Witness ==
    /\ act.op = "get_page_content" /\ act.returned /\ act.result.success
    /\ act.include_links /\ act.result.link_count = 1
    /\ act.result.content_length < Len(act.content)
    /\ act.result.content_length > 0

\* The host of a netloc: what follows the credentials, up to the port.
RECURSIVE after_last(_, _)
after_last(s, sep) ==
    IF \E j \in 1..Len(s) : s[j] = sep
    THEN after_last(SubSeq(s, 1 + (CHOOSE j \in 1..Len(s) : s[j] = sep), Len(s)), sep)
    ELSE s

hostname(netloc) == upto(after_last(netloc, "@"), {":"})

\* C30: is_valid_url accepts a value exactly when it is a string that is not
\* empty, its scheme is one of http, https, ftp, ftps, and its host is not empty
\* and contains a dot or is "localhost"; so a url whose host is localhost is
\* accepted with or without a port and credentials.
C30_ValidUrlByHost ==
    (act.op = "is_valid_url" /\ act.pc = "done") =>
        LET parsed == urlparse(strip(act.url.str))
            host   == hostname(parsed.netloc)
        IN  act.valid <=>
                /\ act.url.type = "str" /\ act.url.str # <<>>
                /\ parsed.scheme \in {"http", "https", "ftp", "ftps"}
                /\ host # <<>>
                /\ \/ \E j \in 1..Len(host) : host[j] = "."
                   \/ host = <<"localhost">>

\* C30, as the code has it: the judgement is on the netloc, credentials and port
\* included, and not on the host.
C30_ValidUrlByNetloc ==
    (act.op = "is_valid_url" /\ act.pc = "done") =>
        LET parsed == urlparse(strip(act.url.str))
        IN  act.valid <=>
                /\ act.url.type = "str" /\ act.url.str # <<>>
                /\ parsed.scheme \in {"http", "https", "ftp", "ftps"}
                /\ parsed.netloc # <<>>
                /\ \/ \E j \in 1..Len(parsed.netloc) : parsed.netloc[j] = "."
                   \/ parsed.netloc = <<"localhost">>

\* The shutdown has run to its end.
ShutdownDone(tk) == tk.op = "shutdown" /\ tk.pc = "done"

\* Object x is certainly open: it is open and no close of it was tried.
LeftOpen(x) == objs[x].kind # "page" /\ objs[x].live /\ ~objs[x].close_raised

\* The shutdown found a started session: a manager holding all four handles.
FoundSession(tk) ==
    /\ tk.entry.bm # None
    /\ \A f \in DOMAIN NoHandles : tk.entry.h[f] # None

\* C25: when the run loop has ended and the cleanup of the server has run, the
\* context, the browser and the engine of the session that was started are
\* released (and with them the page); and when no session was ever created the
\* shutdown makes no call on a browser.
C25_ShutdownReleasesAll ==
    \A t \in DOMAIN task :
        ShutdownDone(task[t]) =>
            /\ FoundSession(task[t]) =>
                  \A f \in {"context", "browser", "playwright"} :
                      ~LeftOpen(task[t].entry.h[f])
            /\ task[t].entry.bm = None => (task[t].log = <<>> /\ objs = <<>>)

\* C25, as far as it holds: the shutdown raises nothing; when no close call
\* raises it releases page, context, browser and engine of the manager in
\* browser_manager, in this order, and clears the handles; without a manager
\* it makes no call.
C25_ShutdownReleasesCurrent ==
    \A t \in DOMAIN task :
        ShutdownDone(task[t]) =>
            /\ task[t].err = "none"
            /\ task[t].entry.bm = None => (task[t].log = <<>> /\ objs = <<>>)
            /\ (FoundSession(task[t]) /\ ~TeardownRaised(task[t])) =>
                  /\ mgr[task[t].entry.bm] = NoHandles
                  /\ task[t].log = <<<<"page.close", "ok">>, <<"context.close", "ok">>,
                                     <<"browser.close", "ok">>, <<"playwright.stop", "ok">>>>
                  /\ \A f \in DOMAIN NoHandles : ~objs[task[t].entry.h[f]].live

\* The call is inside the session start: in an await of start(), or in the
\* teardown of a start that failed.
InStart(tk) ==
    /\ tk.op = "tool"
    /\ \/ tk.pc \in {"start_engine", "start_browser", "start_context", "start_page"}
       \/ tk.why = "start_fail" /\ tk.pc \in Range(TeardownPc)

\* C26: when tool calls overlap, only one of them runs the session start: no two
\* calls are inside the start at once, a call dispatched while another is inside
\* the start creates no manager of its own, and while no start has failed one
\* manager and one engine process exist at most.
C26_StartSingleFlight ==
    /\ \A t, u \in DOMAIN task :
          (t # u /\ InStart(task[t])) =>
              /\ ~InStart(task[u])
              /\ (task[u].op = "tool" /\ task[u].entry.bm # None /\ task[u].entry.ba = None
                    /\ task[u].entry.nmgr >= 1 /\ task[t].m = task[u].entry.bm)
                   => Len(mgr) = task[u].entry.nmgr
    /\ (\A x \in DOMAIN objs : objs[x].live /\ ~objs[x].close_raised) =>
          Cardinality({x \in DOMAIN objs : objs[x].kind = "engine"}) <= 1

\* C27: in any interleaving of tool calls an action asks for the current page
\* of a manager whose start has succeeded, so 'Browser not started' is returned
\* to no caller: a tool call is answered with the not-started error in neither
\* form, envelope or failure payload.
C27_NotStartedNeverSurfaced ==
    \A t \in DOMAIN task :
        (task[t].op = "tool" /\ task[t].pc = "done") => task[t].resp.msg # "not_started"

====
